---- MODULE Spec2Model ----
(***************************************************************************)
(* A model of the forecasting core of the air-quality repository:          *)
(*   - DataQualityEnhancer (src/src/preprocessing/data_quality.py)         *)
(*   - split_time_series, create_sequences, ModelTrainer.prepare_data      *)
(*   - BaseModel / LSTMModel life cycle                                    *)
(*   - ModelService, CompatibleModelService, FastModelService              *)
(* Every component has its own specification (SpecDQ, SpecSeq, SpecModel,  *)
(* SpecSvc); the variables of the other components stay at their idle      *)
(* values.                                                                 *)
(*                                                                         *)
(* Numbers: a frame cell holding the raw value v is the integer v * Unit,  *)
(* so that quartiles (multiples of 1/4), the IQR factor (a multiple of     *)
(* 1/2) and medians are exact integers.                                    *)
(***************************************************************************)
EXTENDS Integers, Sequences, FiniteSets, TLC

VARIABLES
    \* DataQualityEnhancer
    outlier_bounds,   \* self.outlier_bounds: column -> <<lower, upper>>
    scalers,          \* self.scalers: "robust" -> fitted RobustScaler
    transformers,     \* self.transformers: key -> fitted transformer
    dq_fitted,        \* enhance_data_quality has completed at least once
    dq_fit_bounds,    \* outlier_bounds as they were when the last fit returned
    dq_op,            \* the last operation called on the enhancer
    dq_in,            \* its input frame
    dq_applied,       \* the bounds its np.clip used, per column
    dq_clipped,       \* the frame as detect_and_handle_outliers returned it
    dq_out,           \* the frame it returned
    dq_result,        \* "none", "returned", or the exception raised
    dq_probe,         \* history: one earlier transform_new_data call on the current fit
    \* split_time_series / create_sequences / ModelTrainer.prepare_data
    sq_ts,            \* the input frame: row -> its timestamp (datetime column)
    sq_ratios,        \* <<train_ratio, val_ratio, test_ratio>> in percent
    sq_L,             \* sequence_length
    sq_H,             \* forecast_horizon
    sq_simple,        \* use_simple_features
    sq_nfeat,         \* number of non-target columns of the frame
    sq_op,            \* the call made: "none" until it is made
    sq_segs,          \* split result: [train, val, test], each a sequence of rows
    sq_samples,       \* sequencing result: samples, each [x |-> rows, y |-> rows]
    sq_shape,         \* shapes of the arrays returned: [X |-> .., y |-> ..]
    sq_result,        \* "none", "returned", or the exception raised
    \* BaseModel / LSTMModel and the directory it is saved to
    m_model,          \* self.model: "None", or the state of the network held
    m_is_fitted,      \* self.is_fitted
    m_history,        \* self.history: "None" or "set"
    m_disk,           \* model_path: metadata.pkl ("absent", or the is_fitted it
                      \* records), lstm_model.h5, training_history.json
    m_op,             \* the last call on the model
    m_result,         \* "none", "returned", or the exception raised
    m_net_calls,      \* how many times that call invoked the network
    \* prediction services and the "models" directory they load from
    sv_disk,          \* models/: basic_enhanced_lstm.h5, _scaler.pkl, _feature_engineer.pkl
    sv_built,         \* the services whose module-level instance has been constructed
    model_service,    \* ModelService: models, scalers, feature_engineer, model_metadata
    ms_log,           \* highest level logged by ModelService._load_models
    compatible_service, \* CompatibleModelService: model, metadata, model_info
    sv_op,            \* the last call: <<service, operation>>
    sv_result,        \* what that call returned or raised
    sv_status,        \* the last /model-status response
    \* ModelEvaluator
    ev_true,          \* y_true, one target
    ev_pred,          \* y_pred, of the same length
    ev_op,            \* "none" until calculate_metrics has been called
    ev_metrics,       \* the metrics dictionary it returned
    \* a direct call of DataQualityEnhancer.detect_and_handle_outliers
    od_in,            \* df
    od_factor,        \* factor, as twice its value
    od_op,            \* "none" until the call is made
    od_out,           \* the frame returned
    \* FeatureEngineer on a frame whose only column is O3_forecast
    fe_in,            \* the O3_forecast column
    fe_op,            \* "none" until a call is made
    fe_result,        \* "none", "returned", or the exception raised
    fe_frame,         \* the frame returned: column -> kind of each cell
    fe_feature_names, \* self.feature_names
    fe_val,           \* the O3_forecast column handed to transform, <<>> before
    fe_out,           \* the frame transform returned
    fe_filled,        \* the columns transform set to 0.0
    \* ModelTrainer and the experiment-tracking backend
    tr_built,         \* a ModelTrainer has been constructed
    mlflow_available, \* self.mlflow_available
    tr_backend,       \* "up" or "down": whether the tracking server answers
    tr_models,        \* self.models: names of the models stored
    tr_op,            \* "none", "init", "train" or "search"
    tr_train,         \* what the last train_model call did
    tr_search,        \* what the last hyperparameter_search call did
    tr_multi,         \* what the last train_multiple_models call did
    tr_eval,          \* what the last evaluate_models call returned
    \* the feature builders of FeatureEngineer on a frame with some source columns
    fb_cols,          \* the columns of the input frame
    fb_op,            \* "none" or the builder called
    fb_result,        \* "none", "returned" or "KeyError"
    fb_added,         \* the columns the returned frame has beyond the input's
    \* LSTMModel._augment_data on N numeric samples of one sequence length
    ag_N,             \* len(X)
    ag_L,             \* X.shape[1]
    ag_op,            \* "none" until the call is made
    ag_warped,        \* how many warped samples the loop produced
    ag_out,           \* the returned samples, in the returned order
    \* the two training stages inside one LSTMModel.fit call
    ft_pc,            \* "idle", "warmup", "main", "done" or "raised"
    ft_epochs,        \* the epochs argument
    ft_batch,         \* the batch_size argument
    ft_stage,         \* the running self.model.fit call: its arguments and epoch counter
    ft_trained,       \* epochs trained so far by each stage
    ft_events,        \* which callback has acted in which stage
    ft_is_fitted,     \* self.is_fitted
    ft_history,       \* self.history: whether it has keys, and the length of each
    \* scripts/train_basic_enhanced.py
    be_n,             \* n_samples of create_simple_data
    be_L,             \* sequence_length of create_sequences
    be_op,            \* "none" until train_basic_enhanced_model has run
    be_seq,           \* X_seq and y_seq: the rows of X_data and y_data each sample holds
    be_split,         \* the samples of the train, val and test sets
    \* FastModelService.predict
    lf_lat,           \* latitude, in 1/10000 degree
    lf_lon,           \* longitude, in 1/10000 degree
    lf_hour,          \* datetime.utcnow().hour
    lf_op,            \* "none" until predict has been called
    lf_factors,       \* what _get_location_factors returned
    lf_result,        \* result['predictions']
    \* callers of ModelService.predict running at the same time
    cl_pc,            \* caller -> "idle", "dispatched" or "returned"
    cl_args,          \* caller -> the hours and include_uncertainty it passed
    cl_result         \* caller -> what its call returned

dqVars == <<outlier_bounds, scalers, transformers, dq_fitted, dq_fit_bounds,
            dq_op, dq_in, dq_applied, dq_clipped, dq_out, dq_result,
            dq_probe>>

sqVars == <<sq_ts, sq_ratios, sq_L, sq_H, sq_simple, sq_nfeat, sq_op, sq_segs,
            sq_samples, sq_shape, sq_result>>

mVars == <<m_model, m_is_fitted, m_history, m_disk, m_op, m_result, m_net_calls>>

svVars ==
    <<sv_disk, sv_built, model_service, ms_log, compatible_service, sv_op, sv_result,
      sv_status>>

evVars == <<ev_true, ev_pred, ev_op, ev_metrics>>

odVars == <<od_in, od_factor, od_op, od_out>>

feVars == <<fe_in, fe_op, fe_result, fe_frame, fe_feature_names, fe_val, fe_out, fe_filled>>

trVars ==
    <<tr_built, mlflow_available, tr_backend, tr_models, tr_op, tr_train, tr_search,
      tr_multi, tr_eval>>

fbVars == <<fb_cols, fb_op, fb_result, fb_added>>

agVars == <<ag_N, ag_L, ag_op, ag_warped, ag_out>>

ftVars ==
    <<ft_pc, ft_epochs, ft_batch, ft_stage, ft_trained, ft_events, ft_is_fitted, ft_history>>

clVars == <<cl_pc, cl_args, cl_result>>

beVars == <<be_n, be_L, be_op, be_seq, be_split>>

lfVars == <<lf_lat, lf_lon, lf_hour, lf_op, lf_factors, lf_result>>

vars ==
    <<dqVars, sqVars, mVars, svVars, evVars, odVars, feVars, trVars, fbVars, agVars, ftVars,
      clVars, beVars, lfVars>>

\* what an action of one component leaves alone
notDQ == <<sqVars, mVars, svVars, evVars, odVars, feVars, trVars, fbVars, agVars,
    ftVars, clVars, beVars, lfVars>>
notSeq == <<dqVars, mVars, svVars, evVars, odVars, feVars, trVars, fbVars, agVars,
    ftVars, clVars, beVars, lfVars>>
notModel == <<dqVars, sqVars, svVars, evVars, odVars, feVars, trVars, fbVars, agVars,
    ftVars, clVars, beVars, lfVars>>
notSvc == <<dqVars, sqVars, mVars, evVars, odVars, feVars, trVars, fbVars, agVars,
    ftVars, clVars, beVars, lfVars>>
notEval == <<dqVars, sqVars, mVars, svVars, odVars, feVars, trVars, fbVars, agVars,
    ftVars, clVars, beVars, lfVars>>
notOutlier == <<sqVars, mVars, svVars, evVars, feVars, trVars, fbVars, agVars,
    ftVars, clVars, beVars, lfVars>>
notFE == <<dqVars, sqVars, mVars, svVars, evVars, odVars, trVars, fbVars, agVars,
    ftVars, clVars, beVars, lfVars>>
notTrainer == <<dqVars, sqVars, mVars, svVars, evVars, odVars, feVars, fbVars, agVars,
    ftVars, clVars, beVars, lfVars>>
notBuilders == <<dqVars, sqVars, mVars, svVars, evVars, odVars, feVars, trVars, agVars,
    ftVars, clVars, beVars, lfVars>>
notAugment ==
    <<dqVars, sqVars, mVars, svVars, evVars, odVars, feVars, trVars, fbVars, ftVars, clVars,
      beVars, lfVars>>
notStages ==
    <<dqVars, sqVars, mVars, svVars, evVars, odVars, feVars, trVars, fbVars, agVars, clVars,
      beVars, lfVars>>
notCallers ==
    <<dqVars, sqVars, mVars, evVars, odVars, feVars, trVars, fbVars, agVars, ftVars, beVars,
      lfVars>>
notBasic ==
    <<dqVars, sqVars, mVars, svVars, evVars, odVars, feVars, trVars, fbVars, agVars, ftVars,
      clVars, lfVars>>
notFast ==
    <<dqVars, sqVars, mVars, svVars, evVars, odVars, feVars, trVars, fbVars, agVars, ftVars,
      clVars, beVars>>

-----------------------------------------------------------------------------
(* Generic helpers                                                         *)

Unit == 4 * 8

EmptyMap == [x \in {} |-> 0]

Min(a, b) == IF a <= b THEN a ELSE b

Max(a, b) == IF a >= b THEN a ELSE b

RECURSIVE InsertSorted(_, _)
InsertSorted(x, s) ==
    IF s = <<>> THEN <<x>>
    ELSE IF x <= Head(s) THEN <<x>> \o s
    ELSE <<Head(s)>> \o InsertSorted(x, Tail(s))

RECURSIVE SortAsc(_)
SortAsc(s) == IF s = <<>> THEN <<>> ELSE InsertSorted(Head(s), SortAsc(Tail(s)))

\* pandas Series.quantile(num/den), linear interpolation between order statistics
Quantile(s, num, den) ==
    LET srt == SortAsc(s)
        pos == (Len(s) - 1) * num
        k   == pos \div den
        r   == pos % den
    IN  IF r = 0 THEN srt[k + 1]
        ELSE srt[k + 1] + (r * (srt[k + 2] - srt[k + 1])) \div den

\* np.clip(v, lo, hi) == minimum(maximum(v, lo), hi)
Clip(v, lo, hi) == Min(Max(v, lo), hi)

-----------------------------------------------------------------------------
(* DataQualityEnhancer                                                     *)

MaxRows == 2
MaxVal == 1

\* Numeric columns none of which is a key variable of the feature builders of
\* the enhancer, so smoothing, robust, interaction and lag builders add nothing.
DQCols == {"NO2_satellite", "HCHO_satellite"}

\* The raw values a cell of each column is drawn from
CellRange(c) == IF c = "NO2_satellite" THEN 0..MaxVal ELSE {0}

\* factor = FactorNum / 2; enhance_data_quality and transform_new_data pass 2.0
FitFactorNum == 2 * 2

\* A frame: column name -> sequence of cells, all columns of one length
Frames ==
    UNION {UNION {{f \in [cs -> [1..n -> {v * Unit : v \in 0..MaxVal}]] :
                      \A c \in cs : \A i \in 1..n : f[c][i] \in {v * Unit : v \in CellRange(c)}}
                  : n \in 1..MaxRows}
           : cs \in (SUBSET DQCols) \ {{}}}

\* a variant that ignores the factor
IqrBoundsNoFactor(col, fnum) ==
    LET Q1  == Quantile(col, 1, 4)
        Q3  == Quantile(col, 3, 4)
    IN  <<Q1 - (Q3 - Q1), Q3 + (Q3 - Q1)>>

\* Q1, Q3, IQR, lower_bound and upper_bound of one column; factor = fnum / 2
IqrBounds(col, fnum) ==
    LET Q1  == Quantile(col, 1, 4)
        Q3  == Quantile(col, 3, 4)
        IQR == Q3 - Q1
    IN  <<Q1 - (fnum * IQR) \div 2, Q3 + (fnum * IQR) \div 2>>

\* detect_and_handle_outliers(method='iqr'): the bounds it computes for df
DetectedBounds(df, fnum) == [c \in DOMAIN df |-> IqrBounds(df[c], fnum)]

\* ... which it stores in self.outlier_bounds[col], column by column
StoreBounds(stored, found) ==
    [c \in (DOMAIN stored) \cup (DOMAIN found) |->
        IF c \in DOMAIN found THEN found[c] ELSE stored[c]]

\* ... and with which it caps the column
ClipFrame(df, bnds) ==
    [c \in DOMAIN df |->
        [i \in 1..Len(df[c]) |-> Clip(df[c][i], bnds[c][1], bnds[c][2])]]

\* The bounds transform_new_data clips with: it calls detect_and_handle_outliers
\* again, which recomputes them from the frame it is given.
TransformBoundsStored(stored, df) ==
    [c \in DOMAIN df |-> IF c \in DOMAIN stored THEN stored[c]
                         ELSE DetectedBounds(df, FitFactorNum)[c]]

TransformBounds(stored, df) == DetectedBounds(df, FitFactorNum)

Median(s) ==
    LET srt == SortAsc(s)
        n   == Len(s)
    IN  IF n % 2 = 1 THEN srt[(n + 1) \div 2]
        ELSE (srt[n \div 2] + srt[n \div 2 + 1]) \div 2

\* RobustScaler().fit: center_ = median, scale_ = IQR (a zero scale becomes 1)
FitRobust(df) ==
    [cols   |-> DOMAIN df,
     center |-> [c \in DOMAIN df |-> Median(df[c])],
     scale  |-> [c \in DOMAIN df |->
                    LET q == Quantile(df[c], 3, 4) - Quantile(df[c], 1, 4)
                    IN  IF q = 0 THEN Unit ELSE q]]

\* RobustScaler.transform raises ValueError when the frame's columns are not
\* the fitted ones
RobustAccepts(sc, df) == sc.cols = DOMAIN df

\* RobustScaler.transform: (x - center_) / scale_, kept as <<numerator, denominator>>
ApplyRobust(sc, df) ==
    [c \in DOMAIN df |->
        [i \in 1..Len(df[c]) |-> <<df[c][i] - sc.center[c], sc.scale[c]>>]]

\* enhance_data_quality(df, scaling_method='robust'): outliers are capped with
\* the bounds of df, which are stored; the builders add nothing for DQCols and
\* the median imputation finds nothing missing; the scaler is fitted on the
\* capped frame and applied to it.
EnhanceDataQuality(df) ==
    /\ dq_applied' = DetectedBounds(df, FitFactorNum)
    /\ outlier_bounds' = StoreBounds(outlier_bounds, dq_applied')
    /\ dq_clipped' = ClipFrame(df, dq_applied')
    /\ scalers' = [k \in (DOMAIN scalers) \cup {"robust"} |->
                      IF k = "robust" THEN FitRobust(dq_clipped') ELSE scalers[k]]
    /\ transformers' = transformers
    /\ dq_fitted' = TRUE
    /\ dq_fit_bounds' = outlier_bounds'
    /\ dq_op' = "fit"
    /\ dq_in' = df
    /\ dq_out' = ApplyRobust(scalers'["robust"], dq_clipped')
    /\ dq_result' = "returned"

\* transform_new_data(df): detect_and_handle_outliers (which stores the bounds
\* it finds), the builders, then the fitted 'imputer' and 'robust' entries
\* when there are any.
TransformNewData(df) ==
    /\ dq_applied' = TransformBounds(outlier_bounds, df)
    /\ outlier_bounds' = StoreBounds(outlier_bounds, DetectedBounds(df, FitFactorNum))
    /\ dq_clipped' = ClipFrame(df, dq_applied')
    /\ UNCHANGED <<scalers, transformers, dq_fitted, dq_fit_bounds>>
    /\ dq_op' = "transform"
    /\ dq_in' = df
    /\ IF "robust" \notin DOMAIN scalers
       THEN dq_out' = dq_clipped' /\ dq_result' = "returned"
       ELSE IF RobustAccepts(scalers["robust"], dq_clipped')
       THEN dq_out' = ApplyRobust(scalers["robust"], dq_clipped') /\ dq_result' = "returned"
       ELSE dq_out' = EmptyMap /\ dq_result' = "ValueError"

InitDQ ==
    /\ outlier_bounds = EmptyMap
    /\ scalers = EmptyMap
    /\ transformers = EmptyMap
    /\ dq_fitted = FALSE
    /\ dq_fit_bounds = EmptyMap
    /\ dq_op = "none"
    /\ dq_in = EmptyMap
    /\ dq_applied = EmptyMap
    /\ dq_clipped = EmptyMap
    /\ dq_out = EmptyMap
    /\ dq_result = "none"
    /\ dq_probe = {}

Fit == (\E df \in Frames : EnhanceDataQuality(df)) /\ UNCHANGED dq_probe /\ UNCHANGED notDQ

Transform == (\E df \in Frames : TransformNewData(df)) /\ UNCHANGED dq_probe /\ UNCHANGED notDQ

\* Repeated transform_new_data calls on one enhancer.  dq_probe remembers one
\* earlier call made on the current fit (any of them), and whether a call on
\* another frame has happened since.

MaxRepeatRows == 1
MaxRepeatVal == 1

RepeatFrames ==
    UNION {UNION {{f \in [cs -> [1..n -> {v * Unit : v \in 0..MaxRepeatVal}]] :
                      \A c \in cs : \A i \in 1..n :
                          c # "NO2_satellite" => f[c][i] = 0}
                  : n \in 1..MaxRepeatRows}
           : cs \in (SUBSET DQCols) \ {{}}}

RepeatFit ==
    /\ \E df \in RepeatFrames : EnhanceDataQuality(df)
    /\ dq_probe' = {}
    /\ UNCHANGED notDQ

RepeatTransform ==
    /\ \E df \in RepeatFrames :
          /\ TransformNewData(df)
          /\ \/ dq_probe' = {[in |-> df, out |-> dq_out', result |-> dq_result',
                               between |-> FALSE]}
             \/ dq_probe' = {[p EXCEPT !.between = p.between \/ p.in # df] : p \in dq_probe}
    /\ UNCHANGED notDQ

\* detect_and_handle_outliers called on its own, method = 'iqr'

MaxOutRows == 4
MaxOutVal == 1

\* factor 1.5, 2.0, 2.5 as numerators over 2
OutlierFactors == {3, 4, 5}

\* the column [10, 12, 11, 13, 1000]
OutlierScenario ==
    [c \in {"NO2_satellite"} |-> <<10 * Unit, 12 * Unit, 11 * Unit, 13 * Unit, 1000 * Unit>>]

OutlierFrames ==
    UNION {[{"NO2_satellite"} -> [1..n -> {v * Unit : v \in 0..MaxOutVal}]] : n \in 1..MaxOutRows}
    \cup {OutlierScenario}

DetectAndHandleOutliers ==
    /\ od_op = "none"
    /\ od_op' = "detect_and_handle_outliers"
    /\ outlier_bounds' = StoreBounds(outlier_bounds, DetectedBounds(od_in, od_factor))
    /\ od_out' = ClipFrame(od_in, outlier_bounds')
    /\ UNCHANGED <<od_in, od_factor>>
    /\ UNCHANGED <<scalers, transformers, dq_fitted, dq_fit_bounds, dq_op, dq_in, dq_applied,
                   dq_clipped, dq_out, dq_result, dq_probe>>
    /\ UNCHANGED notOutlier

IdleOutlier ==
    /\ od_in = EmptyMap
    /\ od_factor = FitFactorNum
    /\ od_op = "none"
    /\ od_out = EmptyMap

InitOutlier ==
    /\ od_in \in OutlierFrames
    /\ od_factor \in OutlierFactors
    /\ od_op = "none"
    /\ od_out = EmptyMap

-----------------------------------------------------------------------------
(* Sequence assembler: split_time_series, create_sequences, prepare_data   *)

MaxN == 4
MaxTs == 3
MaxL == 2
MaxH == 2
MaxFeat == 2

\* settings.TARGET_VARIABLES has two entries
NumTargets == 2

\* The scenario of the specification: 100 rows, sequence_length 24
ScenarioRows == 10 * 10
ScenarioLen == 2 * 12

RatioTriples == {<<70, 15, 15>>, <<50, 25, 25>>, <<34, 33, 33>>, <<50, 50, 0>>,
                 <<50, 25, 20>>}

TsFrames == UNION {[1..n -> 1..MaxTs] : n \in 0..MaxN}

SeqToSet(s) == {s[i] : i \in 1..Len(s)}

\* df.sort_values(datetime_col): the rows in nondecreasing timestamp order; the
\* default sort is not stable, so rows with equal timestamps come in any order
RECURSIVE SortedOrders(_, _)
SortedOrders(ts, rest) ==
    IF rest = {} THEN {<<>>}
    ELSE LET first == {i \in rest : \A j \in rest : ts[i] <= ts[j]}
         IN  UNION {{<<i>> \o tl : tl \in SortedOrders(ts, rest \ {i})} : i \in first}

\* a variant that keeps the frame in the order given
SortValuesSkipped(ts) == {[i \in 1..Len(ts) |-> i]}

SortValues(ts) == SortedOrders(ts, 1..Len(ts))

\* int(n * ratio) for a ratio of pct percent
IntOfRatio(n, pct) == (n * pct) \div 100

\* seq.iloc[a:b] (0-based, end exclusive, clamped to the length), 0 <= a
Iloc(seq, a, b) ==
    LET hi == Min(b, Len(seq))
    IN  IF hi <= a THEN <<>> ELSE [i \in 1..(hi - a) |-> seq[a + i]]

\* the three slices of split_time_series
SplitSegments(sorted, ratios) ==
    LET n         == Len(sorted)
        train_end == IntOfRatio(n, ratios[1])
        val_end   == IntOfRatio(n, ratios[1] + ratios[2])
    IN  [train |-> Iloc(sorted, 0, train_end),
         val   |-> Iloc(sorted, train_end, val_end),
         test  |-> Iloc(sorted, val_end, n)]

\* a variant whose loop stops one window early
NumWindowsShort(n, L, H) == Max(0, n - L - H)

\* range(len(df) - sequence_length - forecast_horizon + 1)
NumWindows(n, L, H) == Max(0, n - L - H + 1)

\* the loop of create_sequences / _create_simple_sequences over the rows of a frame
WindowSamples(rows, L, H) ==
    [k \in 1..NumWindows(Len(rows), L, H) |->
        [x |-> Iloc(rows, k - 1, k - 1 + L),
         y |-> Iloc(rows, k - 1 + L, k - 1 + L + H)]]

\* np.array(list of equally shaped 2-d arrays).shape; np.array([]) has shape (0,)
ArrayShape(samples, field, ncols) ==
    IF Len(samples) = 0 THEN <<0>>
    ELSE <<Len(samples), Len(samples[1][field]), ncols>>

\* a variant that windows the whole sorted frame instead of the segment
SequenceSourceWhole(segment, sorted) == sorted

\* The frame create_sequences is called on for one segment of prepare_data
SequenceSource(segment, sorted) == segment

\* StandardScaler.fit_transform / transform and RobustScaler.fit_transform
\* reject a frame without rows
ScalerRejects(segs, simple) ==
    IF simple THEN \E k \in {"train", "val", "test"} : Len(segs[k]) = 0
    ELSE Len(segs.train) = 0

NoSegs == [train |-> <<>>, val |-> <<>>, test |-> <<>>]

NoSamples == [train |-> <<>>, val |-> <<>>, test |-> <<>>]

NoShape == [X |-> <<>>, y |-> <<>>]

\* split_time_series(df, 'datetime', train_ratio, val_ratio, test_ratio)
SplitTimeSeries ==
    /\ sq_op = "none"
    /\ sq_ts \in TsFrames
    /\ sq_op' = "split_time_series"
    /\ \E ratios \in RatioTriples :
          /\ sq_ratios' = ratios
          /\ IF ratios[1] + ratios[2] + ratios[3] # 100
             THEN /\ sq_result' = "AssertionError"
                  /\ UNCHANGED sq_segs
             ELSE /\ \E sorted \in SortValues(sq_ts) :
                        sq_segs' = SplitSegments(sorted, ratios)
                  /\ sq_result' = "returned"
    /\ UNCHANGED <<sq_ts, sq_L, sq_H, sq_simple, sq_nfeat, sq_samples, sq_shape>>
    /\ UNCHANGED notSeq

\* FeatureEngineer.create_sequences(df, sequence_length, forecast_horizon); the
\* rows of df are 1..Len(sq_ts) in frame order
CreateSequences ==
    /\ sq_op = "none"
    /\ sq_op' = "create_sequences"
    /\ \E L \in (IF sq_ts \in TsFrames THEN 1..MaxL ELSE {ScenarioLen}), H \in 1..MaxH,
          F \in 1..MaxFeat :
          /\ sq_L' = L
          /\ sq_H' = H
          /\ sq_nfeat' = F
          /\ sq_samples' = [NoSamples EXCEPT
                               !.train = WindowSamples([i \in 1..Len(sq_ts) |-> i], L, H)]
          /\ sq_shape' = [X |-> ArrayShape(sq_samples'.train, "x", F),
                          y |-> ArrayShape(sq_samples'.train, "y", NumTargets)]
    /\ sq_result' = "returned"
    /\ UNCHANGED <<sq_ts, sq_ratios, sq_simple, sq_segs>>
    /\ UNCHANGED notSeq

\* ModelTrainer.prepare_data(df, sequence_length, forecast_horizon, ratios,
\* use_simple_features): split, per-segment feature processing (which keeps
\* the rows and their order), per-segment sequencing
PrepareData ==
    /\ sq_op = "none"
    /\ sq_ts \in TsFrames
    /\ sq_op' = "prepare_data"
    /\ \E ratios \in RatioTriples, L \in 1..MaxL, H \in 1..MaxH, simple \in BOOLEAN :
          /\ sq_ratios' = ratios
          /\ sq_L' = L
          /\ sq_H' = H
          /\ sq_simple' = simple
          /\ IF ratios[1] + ratios[2] + ratios[3] # 100
             THEN /\ sq_result' = "AssertionError"
                  /\ UNCHANGED <<sq_segs, sq_samples, sq_shape>>
             ELSE \E sorted \in SortValues(sq_ts) :
                    /\ sq_segs' = SplitSegments(sorted, ratios)
                    /\ IF ScalerRejects(sq_segs', simple)
                       THEN /\ sq_result' = "ValueError"
                            /\ UNCHANGED <<sq_samples, sq_shape>>
                       ELSE /\ sq_samples' =
                                  [k \in {"train", "val", "test"} |->
                                      WindowSamples(SequenceSource(sq_segs'[k], sorted), L, H)]
                            /\ sq_shape' =
                                  [X |-> ArrayShape(sq_samples'.train, "x",
                                                    IF simple THEN sq_nfeat + NumTargets
                                                    ELSE sq_nfeat),
                                   y |-> ArrayShape(sq_samples'.train, "y", NumTargets)]
                            /\ sq_result' = "returned"
    /\ UNCHANGED <<sq_ts, sq_nfeat>>
    /\ UNCHANGED notSeq

IdleSeq ==
    /\ sq_ts = <<>>
    /\ sq_ratios = <<70, 15, 15>>
    /\ sq_L = 1
    /\ sq_H = 1
    /\ sq_simple = FALSE
    /\ sq_nfeat = 1
    /\ sq_op = "none"
    /\ sq_segs = NoSegs
    /\ sq_samples = NoSamples
    /\ sq_shape = NoShape
    /\ sq_result = "none"

\* the frame the one call of a behaviour is made on
InitSeq ==
    /\ sq_ts \in TsFrames \cup {[i \in 1..ScenarioRows |-> 1]}
    /\ sq_ratios = <<70, 15, 15>>
    /\ sq_L = 1
    /\ sq_H = 1
    /\ sq_simple = FALSE
    /\ sq_nfeat = 1
    /\ sq_op = "none"
    /\ sq_segs = NoSegs
    /\ sq_samples = NoSamples
    /\ sq_shape = NoShape
    /\ sq_result = "none"

-----------------------------------------------------------------------------
(* BaseModel / LSTMModel life cycle                                        *)

MaxSamples == 2

\* number of dimensions of the array passed to predict
InputDims == {1, 3}

NoFile == "absent"

\* a variant without the is_fitted check
ValidateInputDimsOnly(is_fitted, ndim) == IF ndim < 2 THEN "ValueError" ELSE "ok"

\* BaseModel.validate_input: the exception it raises, or "ok"
ValidateInput(is_fitted, ndim) ==
    IF ~is_fitted THEN "ValueError"
    ELSE IF ndim < 2 THEN "ValueError"
    ELSE "ok"

\* what build_model does to self.is_fitted: nothing
FittedAfterBuild(is_fitted) == is_fitted

\* LSTMModel.build_model(input_shape, output_shape): a new compiled network
\* replaces the one held
BuildModel ==
    /\ m_model' = "built"
    /\ m_is_fitted' = FittedAfterBuild(m_is_fitted)
    /\ m_op' = "build_model"
    /\ m_result' = "returned"
    /\ m_net_calls' = 0
    /\ UNCHANGED <<m_history, m_disk>>
    /\ UNCHANGED notModel

\* LSTMModel.fit: builds the network when none is held, augments, runs the
\* warm-up and the main stage; history and is_fitted are assigned after the
\* main stage returned. A stage that raises leaves them as they were.
FitModel ==
    /\ m_op' = "fit"
    /\ \E raises \in BOOLEAN :
          IF raises
          THEN /\ m_model' = "partly_trained"
               /\ m_result' = "Exception"
               /\ UNCHANGED <<m_is_fitted, m_history>>
          ELSE /\ m_model' = "trained"
               /\ m_history' = "set"
               /\ m_is_fitted' = TRUE
               /\ m_result' = "returned"
    /\ m_net_calls' = 0
    /\ UNCHANGED m_disk
    /\ UNCHANGED notModel

\* LSTMModel.predict(X)
Predict ==
    /\ m_op' = "predict"
    /\ \E ndim \in InputDims :
          LET v == ValidateInput(m_is_fitted, ndim)
          IN  IF v # "ok"
              THEN m_result' = v /\ m_net_calls' = 0
              ELSE IF m_model = "None"
                   THEN m_result' = "AttributeError" /\ m_net_calls' = 0
                   ELSE m_result' = "returned" /\ m_net_calls' = 1
    /\ UNCHANGED <<m_model, m_is_fitted, m_history, m_disk>>
    /\ UNCHANGED notModel

\* LSTMModel.predict_with_uncertainty(X, n_samples)
PredictWithUncertainty ==
    /\ m_op' = "predict_with_uncertainty"
    /\ \E ndim \in InputDims, n_samples \in 1..MaxSamples :
          LET v == ValidateInput(m_is_fitted, ndim)
          IN  IF v # "ok"
              THEN m_result' = v /\ m_net_calls' = 0
              ELSE IF m_model = "None"
                   THEN m_result' = "TypeError" /\ m_net_calls' = 0
                   ELSE m_result' = "returned" /\ m_net_calls' = n_samples
    /\ UNCHANGED <<m_model, m_is_fitted, m_history, m_disk>>
    /\ UNCHANGED notModel

\* BaseModel.save_model: _save_model_specific writes lstm_model.h5 when a
\* network is held and training_history.json when there is a history, then
\* metadata.pkl is written with the current is_fitted
SaveModel ==
    /\ m_disk' = [metadata |-> IF m_is_fitted THEN "is_fitted" ELSE "not_fitted",
                  network  |-> IF m_model # "None" THEN m_model ELSE m_disk.network,
                  history  |-> IF m_history # "None" THEN "set" ELSE m_disk.history]
    /\ m_op' = "save_model"
    /\ m_result' = "returned"
    /\ m_net_calls' = 0
    /\ UNCHANGED <<m_model, m_is_fitted, m_history>>
    /\ UNCHANGED notModel

\* BaseModel.load_model: joblib.load raises when metadata.pkl is missing;
\* otherwise is_fitted is taken from the metadata, and _load_model_specific
\* loads lstm_model.h5 and training_history.json when they exist
LoadModel ==
    /\ m_op' = "load_model"
    /\ m_net_calls' = 0
    /\ IF m_disk.metadata = NoFile
       THEN /\ m_result' = "FileNotFoundError"
            /\ UNCHANGED <<m_model, m_is_fitted, m_history>>
       ELSE /\ m_is_fitted' = (m_disk.metadata = "is_fitted")
            /\ m_model' = IF m_disk.network # NoFile THEN "loaded" ELSE m_model
            /\ m_history' = IF m_disk.history # NoFile THEN "set" ELSE m_history
            /\ m_result' = "returned"
    /\ UNCHANGED m_disk
    /\ UNCHANGED notModel

\* Outside the program: the network file is removed from the directory
RemoveNetworkFile ==
    /\ m_disk.network # NoFile
    /\ m_disk' = [m_disk EXCEPT !.network = NoFile]
    /\ m_op' = "none"
    /\ m_result' = "none"
    /\ m_net_calls' = 0
    /\ UNCHANGED <<m_model, m_is_fitted, m_history>>
    /\ UNCHANGED notModel

\* BaseModel.__init__ / LSTMModel.__init__, and an empty directory
InitModel ==
    /\ m_model = "None"
    /\ m_is_fitted = FALSE
    /\ m_history = "None"
    /\ m_disk = [metadata |-> NoFile, network |-> NoFile, history |-> NoFile]
    /\ m_op = "none"
    /\ m_result = "none"
    /\ m_net_calls = 0

-----------------------------------------------------------------------------
(* Prediction services                                                     *)

MaxHours == 2

FileStates == {"absent", "valid", "corrupt"}

\* the states of the "models" directory when a service is imported
DiskStates ==
    {[dir |-> FALSE, network |-> "absent", scaler |-> "absent", fe |-> "absent"]}
    \cup [dir : {TRUE}, network : FileStates, scaler : FileStates, fe : FileStates]

NoResult ==
    [outcome |-> "none", values |-> "none", features |-> "none", model_used |-> "none",
     info_name |-> "none", hours |-> 0, uncertainties |-> FALSE,
     lengths |-> [NO2 |-> 0, O3 |-> 0], unc_lengths |-> [NO2 |-> 0, O3 |-> 0]]

\* lengths of the NO2 and O3 lists of a result whose lists have n entries;
\* the uncertainty lists are computed element-wise from them
Lengths(n) == [NO2 |-> n, O3 |-> n]

UncLengths(n, unc) == IF unc THEN Lengths(n) ELSE Lengths(0)

\* the features passed to the network hold one sample, so its output, and
\* pred[:, 0] and pred[:, 1], have one row
FeatureBatch == 1

NoStatus == [status |-> "none", model_name |-> "none", loaded_models |-> {}]

Raised(e) == [NoResult EXCEPT !.outcome = e]

\* ModelService.__init__ before _load_models runs
EmptyModelService ==
    [models |-> {}, scalers |-> {}, feature_engineer |-> "None", model_metadata |-> "empty"]

\* ModelService._load_models: the fields it leaves and the highest log level
LoadModels(disk) ==
    IF ~disk.dir \/ disk.network = "absent"
    THEN [svc |-> EmptyModelService, log |-> "warning"]
    ELSE IF disk.network = "corrupt"
    THEN [svc |-> EmptyModelService, log |-> "error"]
    ELSE IF disk.scaler = "corrupt"
    THEN [svc |-> [EmptyModelService EXCEPT !.models = {"basic_enhanced"}], log |-> "error"]
    ELSE LET sc == IF disk.scaler = "valid" THEN {"basic_enhanced"} ELSE {}
         IN  IF disk.fe = "corrupt"
             THEN [svc |-> [EmptyModelService EXCEPT !.models = {"basic_enhanced"},
                                                     !.scalers = sc],
                   log |-> "error"]
             ELSE [svc |-> [models |-> {"basic_enhanced"},
                            scalers |-> sc,
                            feature_engineer |-> IF disk.fe = "valid" THEN "loaded" ELSE "new",
                            model_metadata |-> "Basic Enhanced LSTM"],
                   log |-> "info"]

\* ModelService._generate_intelligent_predictions
IntelligentPredictions(hours, unc) ==
    [outcome |-> "returned", values |-> "heuristic", features |-> "none",
     model_used |-> "intelligent_atmospheric_patterns",
     info_name |-> "Atmospheric Science Patterns",
     hours |-> hours, uncertainties |-> unc,
     lengths |-> Lengths(hours), unc_lengths |-> UncLengths(hours, unc)]

\* ModelService._prepare_features: FeatureEngineer has no create_features, so
\* with a feature engineer the except branch returns random features; without
\* one the numeric columns of the synthetic frame are used
PrepareFeatures(svc) ==
    IF svc.feature_engineer # "None" THEN "random" ELSE "synthetic"

\* ModelService._predict_with_trained_model; net is what the network call
\* does with the prepared features: raises, or returns one or two columns
PredictWithTrainedModel(svc, hours, unc, net) ==
    IF net = "raises"
    THEN IntelligentPredictions(hours, unc)
    ELSE [outcome |-> "returned",
          values |-> IF net = "two_columns" THEN "network" ELSE "network_and_noise",
          features |-> PrepareFeatures(svc),
          model_used |-> "basic_enhanced_lstm_77_percent",
          info_name |-> svc.model_metadata,
          hours |-> hours, uncertainties |-> unc,
          lengths |-> Lengths(FeatureBatch), unc_lengths |-> UncLengths(FeatureBatch, unc)]

\* ModelService.predict
ModelServicePredictResult(svc, hours, unc, net) ==
    IF "basic_enhanced" \in svc.models
    THEN PredictWithTrainedModel(svc, hours, unc, net)
    ELSE IntelligentPredictions(hours, unc)

\* outcomes of the Keras predict call on the prepared features
NetOutcomes == {"raises", "one_column", "two_columns"}

ModelServiceInit ==
    /\ "ModelService" \notin sv_built
    /\ sv_built' = sv_built \cup {"ModelService"}
    /\ model_service' = LoadModels(sv_disk).svc
    /\ ms_log' = LoadModels(sv_disk).log
    /\ sv_op' = <<"ModelService", "_load_models">>
    /\ sv_result' = NoResult
    /\ UNCHANGED <<sv_disk, compatible_service, sv_status>>
    /\ UNCHANGED notSvc

ModelServicePredict ==
    /\ "ModelService" \in sv_built
    /\ sv_op' = <<"ModelService", "predict">>
    /\ \E hours \in 1..MaxHours, unc \in BOOLEAN, net \in NetOutcomes :
          sv_result' = ModelServicePredictResult(model_service, hours, unc, net)
    /\ UNCHANGED <<sv_disk, sv_built, model_service, ms_log, compatible_service, sv_status>>
    /\ UNCHANGED notSvc

\* CompatibleModelService.__init__ before _load_trained_model runs
EmptyCompatibleService == [model |-> "None", metadata |-> "None", model_info |-> "empty"]

\* CompatibleModelService._load_trained_model
LoadTrainedModel(disk) ==
    IF disk.dir /\ disk.network = "valid"
    THEN [model |-> "loaded",
          metadata |-> IF disk.scaler = "valid" THEN "loaded" ELSE "None",
          model_info |-> "Advanced LSTM"]
    ELSE EmptyCompatibleService

\* CompatibleModelService.predict: raises without a model and re-raises what
\* the network call raises; otherwise the network's single output pair is
\* spread over the hours with hour-of-day factors and random noise
CompatiblePredictResult(svc, hours, unc, net) ==
    IF svc.model = "None" \/ net = "raises"
    THEN Raised("Exception")
    ELSE [outcome |-> "returned", values |-> "network_and_noise", features |-> "random",
          model_used |-> "trained_advanced_lstm", info_name |-> svc.model_info,
          hours |-> hours, uncertainties |-> unc,
          lengths |-> Lengths(hours), unc_lengths |-> UncLengths(hours, unc)]

\* FastModelService.predict: location and hour-of-day formulas, no network
FastPredictResult(hours, unc) ==
    [outcome |-> "returned", values |-> "heuristic", features |-> "none",
     model_used |-> "lstm", info_name |-> "LSTM",
     hours |-> hours, uncertainties |-> unc,
     lengths |-> Lengths(hours), unc_lengths |-> UncLengths(hours, unc)]

\* FastModelService.get_model_info()['loaded_models']
FastLoadedModels == {"lstm"}

\* GET /model-status, from the loaded_models of the service the routes import
ModelStatus(loaded_models) ==
    IF loaded_models # {}
    THEN IF "lstm" \in loaded_models
         THEN [status |-> "trained_model_active", model_name |-> "LSTM",
               loaded_models |-> loaded_models]
         ELSE IF "basic_enhanced" \in loaded_models
         THEN [status |-> "trained_model_active", model_name |-> "Enhanced LSTM",
               loaded_models |-> loaded_models]
         ELSE [status |-> "model_active", model_name |-> "LSTM",
               loaded_models |-> loaded_models]
    ELSE [status |-> "intelligent_fallback", model_name |-> "Atmospheric Science Patterns",
          loaded_models |-> loaded_models]

CompatibleServiceInit ==
    /\ "CompatibleModelService" \notin sv_built
    /\ sv_built' = sv_built \cup {"CompatibleModelService"}
    /\ compatible_service' = LoadTrainedModel(sv_disk)
    /\ sv_op' = <<"CompatibleModelService", "_load_trained_model">>
    /\ sv_result' = NoResult
    /\ UNCHANGED <<sv_disk, model_service, ms_log, sv_status>>
    /\ UNCHANGED notSvc

CompatibleServicePredict ==
    /\ "CompatibleModelService" \in sv_built
    /\ sv_op' = <<"CompatibleModelService", "predict">>
    /\ \E hours \in 1..MaxHours, unc \in BOOLEAN, net \in NetOutcomes :
          sv_result' = CompatiblePredictResult(compatible_service, hours, unc, net)
    /\ UNCHANGED <<sv_disk, sv_built, model_service, ms_log, compatible_service, sv_status>>
    /\ UNCHANGED notSvc

FastServiceInit ==
    /\ "FastModelService" \notin sv_built
    /\ sv_built' = sv_built \cup {"FastModelService"}
    /\ sv_op' = <<"FastModelService", "__init__">>
    /\ sv_result' = NoResult
    /\ UNCHANGED <<sv_disk, model_service, ms_log, compatible_service, sv_status>>
    /\ UNCHANGED notSvc

FastServicePredict ==
    /\ "FastModelService" \in sv_built
    /\ sv_op' = <<"FastModelService", "predict">>
    /\ \E hours \in 1..MaxHours, unc \in BOOLEAN :
          sv_result' = FastPredictResult(hours, unc)
    /\ UNCHANGED <<sv_disk, sv_built, model_service, ms_log, compatible_service, sv_status>>
    /\ UNCHANGED notSvc

GetModelStatus ==
    /\ "FastModelService" \in sv_built
    /\ sv_op' = <<"FastModelService", "get_model_status">>
    /\ sv_status' = ModelStatus(FastLoadedModels)
    /\ sv_result' = NoResult
    /\ UNCHANGED <<sv_disk, sv_built, model_service, ms_log, compatible_service>>
    /\ UNCHANGED notSvc

\* no service imported yet
IdleSvc ==
    /\ sv_built = {}
    /\ model_service = EmptyModelService
    /\ ms_log = "none"
    /\ compatible_service = EmptyCompatibleService
    /\ sv_op = <<"none", "none">>
    /\ sv_result = NoResult
    /\ sv_status = NoStatus

InitSvc == sv_disk \in DiskStates /\ IdleSvc

NoDisk == [dir |-> FALSE, network |-> "absent", scaler |-> "absent", fe |-> "absent"]

-----------------------------------------------------------------------------
(* ModelEvaluator                                                          *)

MaxLenY == 3

\* concentrations the arrays are drawn from
EvalValues == {0, 48, 50, 52}

\* y_true and y_pred: arrays of one length, at least two samples
EvalArrays == UNION {[1..n -> EvalValues] : n \in 2..MaxLenY}

Abs(x) == IF x < 0 THEN -x ELSE x

RECURSIVE SumSeq(_)
SumSeq(s) == IF s = <<>> THEN 0 ELSE s[1] + SumSeq(Tail(s))

RECURSIVE ProdSet(_, _)
ProdSet(f, S) ==
    IF S = {} THEN 1 ELSE LET i == CHOOSE i \in S : TRUE IN f[i] * ProdSet(f, S \ {i})

\* a float: a finite ratio num / den, or nan, or inf
Finite(n, d) == [kind |-> "finite", num |-> n, den |-> d]
NaN == [kind |-> "nan", num |-> 0, den |-> 1]
Inf == [kind |-> "inf", num |-> 1, den |-> 1]

RECURSIVE Gcd(_, _)
Gcd(a, b) == IF b = 0 THEN a ELSE Gcd(b, a % b)

\* a non-negative fraction in lowest terms
ReduceFrac(n, d) == LET g == Gcd(n, d) IN Finite(n \div g, d \div g)

\* ... * 100
Percent(f) == LET g == Gcd(100, f.den) IN ReduceFrac((100 \div g) * f.num, f.den \div g)

\* mask = y_true != 0
Mask(t) == {i \in 1..Len(t) : t[i] # 0}

SqErr(t, p) == SumSeq([i \in 1..Len(t) |-> (t[i] - p[i]) * (t[i] - p[i])])

\* mean_squared_error; rmse is its square root
MeanSquaredError(t, p) == Finite(SqErr(t, p), Len(t))

MeanAbsoluteError(t, p) == Finite(SumSeq([i \in 1..Len(t) |-> Abs(t[i] - p[i])]), Len(t))

\* a variant that keeps the zero entries in the mean, with an error of zero
MeanAbsolutePercentageErrorZeroFilled(t, p) ==
    LET m == Mask(t)
        a == [i \in 1..Len(t) |-> Abs(t[i])]
    IN  IF m = {} THEN Inf
        ELSE Percent(ReduceFrac(SumSeq([i \in 1..Len(t) |->
                              IF i \in m THEN Abs(t[i] - p[i]) * ProdSet(a, m \ {i}) ELSE 0]),
                                Len(t) * ProdSet(a, m)))

\* ModelEvaluator._mean_absolute_percentage_error
MeanAbsolutePercentageError(t, p) ==
    LET m == Mask(t)
        a == [i \in 1..Len(t) |-> Abs(t[i])]
    IN  IF m = {} THEN Inf
        ELSE Percent(ReduceFrac(SumSeq([i \in 1..Len(t) |->
                              IF i \in m THEN Abs(t[i] - p[i]) * ProdSet(a, m \ {i}) ELSE 0]),
                                Cardinality(m) * ProdSet(a, m)))

\* n times the total sum of squares of y_true about its mean
TotalSq(t) ==
    Len(t) * SumSeq([i \in 1..Len(t) |-> t[i] * t[i]]) - SumSeq(t) * SumSeq(t)

\* sklearn.metrics.r2_score: 1 for a zero residual, 0 for a constant y_true
\* with a nonzero residual
R2Score(t, p) ==
    IF SqErr(t, p) = 0 THEN Finite(1, 1)
    ELSE IF TotalSq(t) = 0 THEN Finite(0, 1)
    ELSE Finite(TotalSq(t) - Len(t) * SqErr(t, p), TotalSq(t))

RECURSIVE MaxOf(_)
MaxOf(s) == IF Len(s) = 1 THEN s[1] ELSE Max(s[1], MaxOf(Tail(s)))

RECURSIVE MinOf(_)
MinOf(s) == IF Len(s) = 1 THEN s[1] ELSE Min(s[1], MinOf(Tail(s)))

\* metrics['rmse'] / (np.max(y_true) - np.min(y_true)), squared: a float
\* division, so a zero range gives nan or inf
NormalizedRmseSq(t, p) ==
    LET range == MaxOf(t) - MinOf(t)
    IN  IF range = 0
        THEN IF SqErr(t, p) = 0 THEN NaN ELSE Inf
        ELSE Finite(SqErr(t, p), Len(t) * range * range)

\* ModelEvaluator._accuracy_within_threshold, threshold = pct / 100
AccuracyWithinThreshold(t, p, pct) ==
    LET m == Mask(t)
    IN  IF m = {} THEN Finite(0, 1)
        ELSE Finite(100 * Cardinality({i \in m : Abs(t[i] - p[i]) * 100 <= pct * Abs(t[i])}),
                    Cardinality(m))

\* ModelEvaluator._accuracy_within_absolute_threshold
AccuracyWithinAbsoluteThreshold(t, p, units) ==
    Finite(100 * Cardinality({i \in 1..Len(t) : Abs(t[i] - p[i]) <= units}), Len(t))

\* max(0, min(100, r2 * 100))
R2Contribution(r2) ==
    IF r2.num <= 0 THEN Finite(0, 1)
    ELSE IF r2.num >= r2.den THEN Finite(100, 1)
    ELSE Finite(100 * r2.num, r2.den)

\* ModelEvaluator._overall_accuracy_score, times ten:
\* 3 * acc_10_pct + 2 * acc_20_pct + 3 * acc_10_units + 2 * r2_contribution
OverallAccuracyScoreX10(t, p) ==
    LET a == AccuracyWithinThreshold(t, p, 10)
        b == AccuracyWithinThreshold(t, p, 20)
        c == AccuracyWithinAbsoluteThreshold(t, p, 10)
        d == R2Contribution(R2Score(t, p))
    IN  Finite(3 * a.num * c.den * d.den + 2 * b.num * c.den * d.den
                 + 3 * c.num * a.den * d.den + 2 * d.num * a.den * c.den,
               a.den * c.den * d.den)

NoMetrics ==
    [mse |-> NaN, mae |-> NaN, mape |-> NaN, r2 |-> NaN, normalized_rmse_sq |-> NaN,
     accuracy_within_10_percent |-> NaN, overall_accuracy_score_x10 |-> NaN]

\* ModelEvaluator.calculate_metrics on one target column
CalculateMetrics ==
    /\ ev_op = "none"
    /\ ev_op' = "calculate_metrics"
    /\ ev_metrics' =
         [mse |-> MeanSquaredError(ev_true, ev_pred),
          mae |-> MeanAbsoluteError(ev_true, ev_pred),
          mape |-> MeanAbsolutePercentageError(ev_true, ev_pred),
          r2 |-> R2Score(ev_true, ev_pred),
          normalized_rmse_sq |-> NormalizedRmseSq(ev_true, ev_pred),
          accuracy_within_10_percent |-> AccuracyWithinThreshold(ev_true, ev_pred, 10),
          overall_accuracy_score_x10 |-> OverallAccuracyScoreX10(ev_true, ev_pred)]
    /\ UNCHANGED <<ev_true, ev_pred>>
    /\ UNCHANGED notEval

IdleEval ==
    /\ ev_true = <<>>
    /\ ev_pred = <<>>
    /\ ev_op = "none"
    /\ ev_metrics = NoMetrics

InitEval ==
    /\ ev_true \in EvalArrays
    /\ ev_pred \in {p \in EvalArrays : Len(p) = Len(ev_true)}
    /\ ev_op = "none"
    /\ ev_metrics = NoMetrics

-----------------------------------------------------------------------------
(* FeatureEngineer.fit_transform on a frame whose only column is           *)
(* O3_forecast. The values of that column are kept; of every derived       *)
(* column only the kind of each cell is kept: "fin", "nan" or "inf".       *)

MaxFERows == 6
MaxFEVal == 1

FEColumns == UNION {[1..n -> {v * Unit : v \in 0..MaxFEVal}] : n \in 1..MaxFERows}

\* self.target_columns = settings.TARGET_VARIABLES, as far as the frame holds them
TargetColumns == {<<"O3_forecast", 0>>}

\* create_lag_features(df, lag_columns, [1, 2, 3, 6, 12, 24, 48]) and the
\* lags of create_lag_difference_features
FitLags == {1, 2, 3, 6, 12, 24, 48}
\* create_rolling_features(df, lag_columns, [3, 6, 12, 24, 48])
FitWindows == {3, 6, 12, 24, 48}
RollingStats == {"rolling_mean", "rolling_std", "rolling_min", "rolling_max"}
\* create_robust_features: rolling(window, min_periods=1)
RobustWindows == {3, 6, 12, 24}
RobustStats == {"median", "iqr", "mad", "p10", "p90"}
\* diff(d) and pct_change(d)
DiffPeriods == {1, 3, 6, 12}
\* smooth_time_series window_length
SmoothWindow == 5

AllFin(n) == [i \in 1..n |-> "fin"]

\* Series.shift(k), Series.diff(k), and rolling(k + 1) statistics: the first
\* k cells are NaN
FirstNaN(n, k) == [i \in 1..n |-> IF i <= k THEN "nan" ELSE "fin"]

\* pd.cut(df['O3_forecast'], bins=[0, 50, ...]): the bins are open on the
\* left, so a zero falls in no bin
AqiCategory(vals) == [i \in 1..Len(vals) |-> IF vals[i] = 0 THEN "nan" ELSE "fin"]

\* Series.pct_change(d): (x[i] - x[i-d]) / x[i-d]
PctChange(vals, d) ==
    [i \in 1..Len(vals) |->
        IF i <= d THEN "nan"
        ELSE IF vals[i - d] # 0 THEN "fin"
        ELSE IF vals[i] = 0 THEN "nan" ELSE "inf"]

\* DataQualityEnhancer.create_lag_difference_features: the columns it sets
LagDifferenceColumns(vals) ==
    LET n == Len(vals)
    IN  [c \in ({"lag"} \X FitLags) \cup ({"diff", "pct_change"} \X DiffPeriods)
               \cup {<<"acceleration", 2>>} |->
            IF c[1] = "pct_change" THEN PctChange(vals, c[2]) ELSE FirstNaN(n, c[2])]

\* the frame after the feature builders, lag and rolling features, outlier
\* capping, smoothing and robust features, without the source column
BuiltColumns(raw) ==
    LET n == Len(raw)
    IN  [c \in {<<"aqi_category", 0>>} \cup (RollingStats \X FitWindows)
               \cup (RobustStats \X RobustWindows)
               \cup (IF n > SmoothWindow THEN {<<"smoothed", SmoothWindow>>} ELSE {}) |->
            IF c[1] = "aqi_category" THEN AqiCategory(raw)
            ELSE IF c[1] \in RollingStats THEN FirstNaN(n, c[2] - 1)
            ELSE AllFin(n)]

Merge(f, g) == [c \in (DOMAIN f) \cup (DOMAIN g) |-> IF c \in DOMAIN g THEN g[c] ELSE f[c]]

Count(col, kind) == Cardinality({i \in 1..Len(col) : col[i] = kind})

\* Series.median(): NaN cells are skipped; NaN when no cell is left, inf
\* when the middle of the sorted cells is inf
MedianKind(col) ==
    IF Count(col, "nan") = Len(col) THEN "nan"
    ELSE IF 2 * Count(col, "fin") <= Len(col) - Count(col, "nan") THEN "inf"
    ELSE "fin"

\* df[col].fillna(df[col].median()) for every numeric column
FillNaMedian(frame) ==
    [c \in DOMAIN frame |->
        [i \in 1..Len(frame[c]) |->
            IF frame[c][i] = "nan" THEN MedianKind(frame[c]) ELSE frame[c][i]]]

HasKind(frame, kind) == \E c \in DOMAIN frame : \E i \in 1..Len(frame[c]) : frame[c][i] = kind

\* df.replace([np.inf, -np.inf], np.nan)
ReplaceInf(frame) ==
    [c \in DOMAIN frame |->
        [i \in 1..Len(frame[c]) |-> IF frame[c][i] = "inf" THEN "nan" ELSE frame[c][i]]]

\* the O3_forecast column as detect_and_handle_outliers(method='iqr',
\* factor=2.0) leaves it
CappedSource(raw) == ClipFrame([c \in {"O3_forecast"} |-> raw],
                               DetectedBounds([c \in {"O3_forecast"} |-> raw], FitFactorNum))["O3_forecast"]

\* the frame enhance_data_quality hands to apply_advanced_scaling
ImputedFrame(raw) ==
    FillNaMedian(Merge(Merge(BuiltColumns(raw), LagDifferenceColumns(CappedSource(raw))),
                       [c \in {<<"O3_forecast", 0>>} |-> AllFin(Len(raw))]))

\* FeatureEngineer.fit_transform(df): RobustScaler refuses a frame holding
\* inf and keeps NaN; then inf -> NaN and the median fill
FitTransform ==
    /\ fe_op = "none"
    /\ fe_op' = "fit_transform"
    /\ IF HasKind(ImputedFrame(fe_in), "inf")
       THEN fe_result' = "ValueError" /\ fe_frame' = fe_frame
            /\ fe_feature_names' = fe_feature_names
       ELSE fe_result' = "returned"
            /\ fe_frame' = FillNaMedian(ReplaceInf(ImputedFrame(fe_in)))
            /\ fe_feature_names' = DOMAIN ImputedFrame(fe_in) \ TargetColumns
    /\ UNCHANGED <<fe_in, fe_val, fe_out, fe_filled>>
    /\ UNCHANGED notFE

\* DataQualityEnhancer.create_lag_difference_features(df) called on its own
CreateLagDifferenceFeatures ==
    /\ fe_op = "none"
    /\ fe_op' = "create_lag_difference_features"
    /\ fe_result' = "returned"
    /\ fe_frame' = Merge(LagDifferenceColumns(fe_in),
                         [c \in {<<"O3_forecast", 0>>} |-> AllFin(Len(fe_in))])
    /\ UNCHANGED <<fe_in, fe_feature_names, fe_val, fe_out, fe_filled>>
    /\ UNCHANGED notFE

NoFrame == [c \in {} |-> <<>>]

\* create_lag_features(df, lag_columns, [1, 2, 3, 6, 12, 24]) in transform
TransformLags == {1, 2, 3, 6, 12, 24}
\* create_rolling_features(df, lag_columns, [3, 6, 12, 24]) in transform
TransformWindows == {3, 6, 12, 24}

\* the validation and test frames handed to transform: the derived cells
\* depend on the number of rows only
TransformInputs == {[i \in 1..n |-> 0] : n \in 1..MaxFERows}

\* the frame transform has built before it looks at self.feature_names: the
\* source column, the pollution features, the lag and the rolling features
DerivedColumns(raw) ==
    LET n == Len(raw)
    IN  [c \in {<<"O3_forecast", 0>>, <<"aqi_category", 0>>} \cup ({"lag"} \X TransformLags)
               \cup (RollingStats \X TransformWindows) |->
            IF c[1] = "O3_forecast" THEN AllFin(n)
            ELSE IF c[1] = "aqi_category" THEN AqiCategory(raw)
            ELSE IF c[1] = "lag" THEN FirstNaN(n, c[2])
            ELSE FirstNaN(n, c[2] - 1)]

\* missing_cols = set(self.feature_names) - set(df.columns)
MissingCols(raw) == fe_feature_names \ DOMAIN DerivedColumns(raw)

\* FeatureEngineer.transform(df): every missing column is set to 0.0; no
\* imputer and no scaler is stored under 'knn' or 'standard', so nothing
\* else is applied
FeatureEngineerTransform ==
    /\ fe_val = <<>>
    /\ \E raw \in TransformInputs :
          /\ fe_val' = raw
          /\ fe_filled' = MissingCols(raw)
          /\ fe_out' = Merge(DerivedColumns(raw), [c \in MissingCols(raw) |-> AllFin(Len(raw))])
    /\ UNCHANGED <<fe_in, fe_op, fe_result, fe_frame, fe_feature_names>>
    /\ UNCHANGED notFE

IdleFE ==
    /\ fe_in = <<>>
    /\ fe_op = "none"
    /\ fe_result = "none"
    /\ fe_frame = NoFrame
    /\ fe_feature_names = {}
    /\ fe_val = <<>>
    /\ fe_out = NoFrame
    /\ fe_filled = {}

InitFE ==
    /\ fe_in \in FEColumns
    /\ fe_op = "none"
    /\ fe_result = "none"
    /\ fe_frame = NoFrame
    /\ fe_feature_names = {}
    /\ fe_val = <<>>
    /\ fe_out = NoFrame
    /\ fe_filled = {}

-----------------------------------------------------------------------------
(* ModelTrainer                                                            *)

MaxTrials == 2
MaxConfigs == 3

ModelTypes == {"LSTM", "GRU"}

\* the tracking calls of train_model, in the order they are made
StartRun == 1
LogParams == 2
LogMetric == 3
LogModel == 4
NeverDown == LogModel + 1

NoTrain ==
    [outcome |-> "none", fitted |-> FALSE, evaluated |-> FALSE, saved |-> FALSE,
     stored |-> FALSE, save_model |-> FALSE, fit |-> "none", down_at |-> NeverDown,
     tracked |-> FALSE]

NoSearch ==
    [outcome |-> "none", model_type |-> "none", n_trials |-> 0, trials_run |-> 0,
     fits |-> <<>>, scores |-> <<>>, training_result |-> NoTrain]

NoMulti == [outcome |-> "none", configs |-> <<>>, results |-> {}]

NoEval == [outcome |-> "none", entries |-> {}]

\* model_configs: each entry names a model type; whether fitting that model
\* raises is part of the input
ModelConfigs ==
    UNION {[1..n -> [model_type : ModelTypes, fit : {"ok", "raises"}]] : n \in 1..MaxConfigs}

\* LSTMModel.__init__: super().__init__("AdvancedLSTM", **kwargs)
ModelName(model_type) == "AdvancedLSTM"

\* results[f"{model_type}_{len(results)}"]
ResultKey(j) == <<"LSTM", j>>

\* A tracking call raises when the server does not answer: it was down when
\* train_model was entered, or went down at or before this call.
TrackingRaises(backend, downAt, call) == backend = "down" \/ downAt <= call

\* train_model / _train_model_core: start_run, log_params, fit, predict,
\* calculate_metrics, log_metric, save_model, log_model (the only tracking call
\* inside a try), self.models[...] = model
TrainModelResult(avail, backend, downAt, fit, save) ==
    LET base == [NoTrain EXCEPT !.save_model = save, !.fit = fit, !.down_at = downAt,
                                !.tracked = avail]
    IN  IF avail /\ TrackingRaises(backend, downAt, StartRun)
        THEN [base EXCEPT !.outcome = "MlflowException"]
        ELSE IF avail /\ TrackingRaises(backend, downAt, LogParams)
        THEN [base EXCEPT !.outcome = "MlflowException"]
        ELSE IF fit = "raises"
        THEN [base EXCEPT !.outcome = "fit_error"]
        ELSE IF avail /\ TrackingRaises(backend, downAt, LogMetric)
        THEN [base EXCEPT !.outcome = "MlflowException", !.fitted = TRUE,
                          !.evaluated = TRUE]
        ELSE [base EXCEPT !.outcome = "returned", !.fitted = TRUE, !.evaluated = TRUE,
                          !.saved = save, !.stored = TRUE]

BackendAfter(backend, downAt) == IF downAt < NeverDown THEN "down" ELSE backend

\* objective(trial): the model is created before the try; fit, predict and
\* calculate_metrics are inside it
ObjectiveRaises(model_type) == model_type # "LSTM"

TrialScore(fit) == IF fit = "ok" THEN "rmse" ELSE "inf"

\* study.optimize(objective, n_trials): an exception leaving the objective
\* leaves optimize (catch is not passed)
TrialsRun(model_type, n_trials) == IF ObjectiveRaises(model_type) THEN 1 ELSE n_trials

IdleTrainer ==
    /\ tr_built = FALSE
    /\ mlflow_available = FALSE
    /\ tr_backend = "up"
    /\ tr_models = {}
    /\ tr_op = "none"
    /\ tr_train = NoTrain
    /\ tr_search = NoSearch
    /\ tr_multi = NoMulti
    /\ tr_eval = NoEval

InitTrainer ==
    /\ tr_built = FALSE
    /\ mlflow_available = FALSE
    /\ tr_backend \in {"up", "down"}
    /\ tr_models = {}
    /\ tr_op = "none"
    /\ tr_train = NoTrain
    /\ tr_search = NoSearch
    /\ tr_multi = NoMulti
    /\ tr_eval = NoEval

\* ModelTrainer(): set_tracking_uri and set_experiment inside a try
TrainerInit ==
    /\ tr_built' = TRUE
    /\ mlflow_available' = (tr_backend = "up")
    /\ tr_models' = {}
    /\ tr_op' = "init"
    /\ UNCHANGED <<tr_backend, tr_train, tr_search, tr_multi, tr_eval>>
    /\ UNCHANGED notTrainer

\* the tracking server stops or starts answering between two calls
BackendChanges ==
    /\ tr_backend' = IF tr_backend = "up" THEN "down" ELSE "up"
    /\ UNCHANGED <<tr_built, mlflow_available, tr_models, tr_op, tr_train, tr_search,
                   tr_multi, tr_eval>>
    /\ UNCHANGED notTrainer

TrainModel ==
    /\ tr_built
    /\ \E downAt \in StartRun..NeverDown, fit \in {"ok", "raises"}, save \in BOOLEAN :
          /\ tr_train' = TrainModelResult(mlflow_available, tr_backend, downAt, fit, save)
          /\ tr_backend' = BackendAfter(tr_backend, downAt)
    /\ tr_models' = IF tr_train'.stored THEN tr_models \cup {"AdvancedLSTM"} ELSE tr_models
    /\ tr_op' = "train"
    /\ UNCHANGED <<tr_built, mlflow_available, tr_search, tr_multi, tr_eval>>
    /\ UNCHANGED notTrainer

HyperparameterSearch ==
    /\ tr_built
    /\ \E model_type \in ModelTypes, n_trials \in 1..MaxTrials :
       \E fits \in [1..n_trials -> {"ok", "raises"}], bestFit \in {"ok", "raises"} :
          LET run == TrialsRun(model_type, n_trials)
              completed == ~ObjectiveRaises(model_type)
              best == IF completed
                      THEN TrainModelResult(mlflow_available, tr_backend, NeverDown,
                                            bestFit, TRUE)
                      ELSE NoTrain
          IN  /\ tr_search' =
                    [outcome |-> IF ~completed THEN "ValueError"
                                 ELSE IF best.outcome = "returned" THEN "returned"
                                 ELSE best.outcome,
                     model_type |-> model_type,
                     n_trials |-> n_trials,
                     trials_run |-> run,
                     fits |-> fits,
                     scores |-> IF completed THEN [i \in 1..n_trials |-> TrialScore(fits[i])]
                                ELSE <<>>,
                     training_result |-> best]
              /\ tr_train' = IF completed THEN best ELSE tr_train
              /\ tr_models' = IF best.stored THEN tr_models \cup {"AdvancedLSTM"}
                              ELSE tr_models
    /\ tr_op' = "search"
    /\ UNCHANGED <<tr_built, mlflow_available, tr_backend, tr_multi, tr_eval>>
    /\ UNCHANGED notTrainer

\* train_multiple_models(..., model_configs): a configuration of another
\* type than 'LSTM' raises out of the loop; a training that raises is logged
\* and skipped; every training that returns adds one entry to results and
\* stores its model under model.model_name, which is "AdvancedLSTM" for every
\* LSTMModel
FirstUnknown(configs) ==
    IF \E i \in 1..Len(configs) : configs[i].model_type # "LSTM"
    THEN CHOOSE i \in 1..Len(configs) :
            /\ configs[i].model_type # "LSTM"
            /\ \A j \in 1..(i - 1) : configs[j].model_type = "LSTM"
    ELSE Len(configs) + 1

Trained(avail, backend, configs) ==
    {i \in 1..(FirstUnknown(configs) - 1) :
        TrainModelResult(avail, backend, NeverDown, configs[i].fit, TRUE).outcome = "returned"}

TrainMultipleModels ==
    /\ tr_built
    /\ \E configs \in ModelConfigs :
          LET trained == Trained(mlflow_available, tr_backend, configs)
          IN  /\ tr_multi' =
                    [outcome |-> IF FirstUnknown(configs) <= Len(configs) THEN "ValueError"
                                 ELSE "returned",
                     configs |-> configs,
                     results |-> {ResultKey(j) : j \in 0..(Cardinality(trained) - 1)}]
              /\ tr_models' = tr_models \cup {ModelName(configs[i].model_type) : i \in trained}
              /\ tr_train' = IF FirstUnknown(configs) = 1 THEN tr_train
                             ELSE TrainModelResult(mlflow_available, tr_backend, NeverDown,
                                                   configs[FirstUnknown(configs) - 1].fit, TRUE)
    /\ tr_op' = "train_multiple"
    /\ UNCHANGED <<tr_built, mlflow_available, tr_backend, tr_search, tr_eval>>
    /\ UNCHANGED notTrainer

\* evaluate_models(X_test, y_test): one entry per key of self.models; the
\* tracking calls are inside a try
EvaluateModels ==
    /\ tr_built
    /\ tr_eval' = [outcome |-> "returned", entries |-> tr_models]
    /\ tr_op' = "evaluate"
    /\ UNCHANGED <<tr_built, mlflow_available, tr_backend, tr_models, tr_train, tr_search,
                   tr_multi>>
    /\ UNCHANGED notTrainer

-----------------------------------------------------------------------------
(* The feature builders of FeatureEngineer                                 *)

MeteorologicalSources ==
    {"u_forecast", "v_forecast", "w_forecast", "T_forecast", "q_forecast",
     "p_forecast", "hour", "month"}

SatelliteSources == {"NO2_satellite", "HCHO_satellite", "ratio_satellite"}

PollutionSources == {"NO2_forecast", "O3_forecast"}

SourceColumns == MeteorologicalSources \cup SatelliteSources \cup PollutionSources

\* the frame a builder works on: its columns, and whether an exception has left
Started(cols) == [cols |-> cols, result |-> "ok"]

\* if <guard>: df[new] = ...   where the right-hand sides index df[needed]
Block(st, guard, needed, new) ==
    IF st.result # "ok" \/ ~(guard \subseteq st.cols) THEN st
    ELSE IF needed \subseteq st.cols THEN [st EXCEPT !.cols = @ \cup new]
    ELSE [st EXCEPT !.result = "KeyError"]

\* if 'a' in df.columns or 'b' in df.columns
BlockAny(st, guards, new) ==
    IF st.result # "ok" \/ guards \cap st.cols = {} THEN st
    ELSE [st EXCEPT !.cols = @ \cup new]

MeteorologicalFeatures(cols) ==
    LET wind == Block(Started(cols), {"u_forecast", "v_forecast"}, {},
                      {"wind_speed", "wind_direction", "wind_dir_N", "wind_dir_E",
                       "wind_speed_category", "wind_power", "wind_shear"})
        vert == Block(wind, {"w_forecast"}, {},
                      {"vertical_wind_abs", "vertical_stability", "vertical_wind_squared"})
        mix  == Block(vert, {"w_forecast", "wind_speed"}, {}, {"mixing_potential"})
        temp == Block(mix, {"T_forecast"}, {},
                      {"temp_celsius", "temp_category", "temp_gradient",
                       "temp_gradient_abs", "temp_sin_daily", "temp_cos_daily"})
        hum  == Block(temp, {"q_forecast"}, {}, {"humidity_log", "humidity_sqrt"})
        rh   == Block(hum, {"q_forecast", "temp_celsius"}, {},
                      {"relative_humidity_approx", "dew_point_approx", "vpd"})
        stab == Block(rh, {"wind_speed", "w_forecast"}, {}, {"atmospheric_stability"})
        rich == Block(stab, {"wind_speed", "w_forecast", "temp_gradient"},
                      {"temp_celsius"}, {"richardson_number"})
        bl   == Block(rich, {"temp_celsius", "wind_speed"}, {}, {"stability_parameter"})
        conv == Block(bl, {"temp_celsius", "wind_speed", "w_forecast"}, {},
                      {"convective_velocity"})
        pres == BlockAny(conv, {"pressure", "p_forecast"},
                         {"pressure_gradient", "pressure_tendency"})
        sol  == Block(pres, {"hour", "month"}, {},
                      {"solar_elevation", "solar_radiation_proxy"})
        phot == Block(sol, {"hour", "month"}, {"temp_celsius"}, {"photochemical_potential"})
        heat == Block(phot, {"temp_celsius", "wind_speed"}, {"relative_humidity_approx"},
                      {"heat_index"})
    IN  Block(heat, {"temp_celsius", "wind_speed"}, {}, {"wind_chill"})

SatelliteFeatures(cols) ==
    LET no2   == Block(Started(cols), {"NO2_satellite"}, {},
                       {"NO2_satellite_log", "NO2_satellite_sqrt"})
        hcho  == Block(no2, {"HCHO_satellite"}, {},
                       {"HCHO_satellite_log", "HCHO_satellite_sqrt"})
        ratio == Block(hcho, {"ratio_satellite"}, {},
                       {"ratio_satellite_log", "ratio_satellite_inv"})
    IN  Block(ratio, {"NO2_satellite", "HCHO_satellite"}, {},
              {"NO2_HCHO_product", "NO2_HCHO_diff", "NO2_HCHO_ratio_alt"})

PollutionFeatures(cols) ==
    LET ratios == Block(Started(cols), {"NO2_forecast", "O3_forecast"}, {},
                        {"NO2_O3_forecast_ratio", "O3_NO2_forecast_ratio"})
        no2    == Block(ratios, {"NO2_forecast"}, {}, {"NO2_forecast_aqi_category"})
        o3     == Block(no2, {"O3_forecast"}, {}, {"O3_forecast_aqi_category"})
        sat    == Block(o3, {"NO2_satellite", "NO2_forecast"}, {},
                        {"NO2_satellite_forecast_ratio", "NO2_satellite_forecast_diff"})
    IN  Block(sat, {"NO2_forecast", "O3_forecast"}, {}, {"combined_pollution_index"})

\* The source columns the expression assigned to a derived column reads,
\* through df[...] or df.get(..., default)
WindColumns ==
    {"wind_speed", "wind_direction", "wind_dir_N", "wind_dir_E", "wind_speed_category",
     "wind_power", "wind_shear"}

Reads(col) ==
    IF col \in WindColumns THEN {"u_forecast", "v_forecast"}
    ELSE IF col \in {"vertical_wind_abs", "vertical_stability", "vertical_wind_squared"}
    THEN {"w_forecast"}
    ELSE IF col \in {"mixing_potential", "atmospheric_stability"}
    THEN {"u_forecast", "v_forecast", "w_forecast"}
    ELSE IF col \in {"temp_celsius", "temp_category", "temp_gradient", "temp_gradient_abs"}
    THEN {"T_forecast"}
    ELSE IF col \in {"temp_sin_daily", "temp_cos_daily"} THEN {"hour"}
    ELSE IF col \in {"humidity_log", "humidity_sqrt"} THEN {"q_forecast"}
    ELSE IF col \in {"relative_humidity_approx", "dew_point_approx", "vpd"}
    THEN {"q_forecast", "T_forecast"}
    ELSE IF col = "richardson_number"
    THEN {"u_forecast", "v_forecast", "T_forecast"}
    ELSE IF col \in {"stability_parameter", "wind_chill"}
    THEN {"u_forecast", "v_forecast", "T_forecast"}
    ELSE IF col = "convective_velocity" THEN {"w_forecast", "T_forecast"}
    ELSE IF col \in {"pressure_gradient", "pressure_tendency"} THEN {"p_forecast"}
    ELSE IF col \in {"solar_elevation", "solar_radiation_proxy"} THEN {"hour", "month"}
    ELSE IF col = "photochemical_potential" THEN {"hour", "month", "T_forecast"}
    ELSE IF col = "heat_index" THEN {"T_forecast", "q_forecast"}
    ELSE IF col \in {"NO2_satellite_log", "NO2_satellite_sqrt"} THEN {"NO2_satellite"}
    ELSE IF col \in {"HCHO_satellite_log", "HCHO_satellite_sqrt"} THEN {"HCHO_satellite"}
    ELSE IF col \in {"ratio_satellite_log", "ratio_satellite_inv"} THEN {"ratio_satellite"}
    ELSE IF col \in {"NO2_HCHO_product", "NO2_HCHO_diff", "NO2_HCHO_ratio_alt"}
    THEN {"NO2_satellite", "HCHO_satellite"}
    ELSE IF col \in {"NO2_O3_forecast_ratio", "O3_NO2_forecast_ratio",
                     "combined_pollution_index"}
    THEN {"NO2_forecast", "O3_forecast"}
    ELSE IF col = "NO2_forecast_aqi_category" THEN {"NO2_forecast"}
    ELSE IF col = "O3_forecast_aqi_category" THEN {"O3_forecast"}
    ELSE {"NO2_satellite", "NO2_forecast"}

IdleBuilders ==
    /\ fb_cols = {}
    /\ fb_op = "none"
    /\ fb_result = "none"
    /\ fb_added = {}

InitBuilders ==
    /\ fb_cols \in SUBSET SourceColumns
    /\ fb_op = "none"
    /\ fb_result = "none"
    /\ fb_added = {}

CreateMeteorologicalFeatures ==
    LET st == MeteorologicalFeatures(fb_cols)
    IN  /\ fb_op' = "meteorological"
        /\ fb_result' = IF st.result = "ok" THEN "returned" ELSE st.result
        /\ fb_added' = IF st.result = "ok" THEN st.cols \ fb_cols ELSE {}
        /\ UNCHANGED fb_cols
        /\ UNCHANGED notBuilders

CreateSatelliteFeatures ==
    LET st == SatelliteFeatures(fb_cols)
    IN  /\ fb_op' = "satellite"
        /\ fb_result' = IF st.result = "ok" THEN "returned" ELSE st.result
        /\ fb_added' = IF st.result = "ok" THEN st.cols \ fb_cols ELSE {}
        /\ UNCHANGED fb_cols
        /\ UNCHANGED notBuilders

CreatePollutionFeatures ==
    LET st == PollutionFeatures(fb_cols)
    IN  /\ fb_op' = "pollution"
        /\ fb_result' = IF st.result = "ok" THEN "returned" ELSE st.result
        /\ fb_added' = IF st.result = "ok" THEN st.cols \ fb_cols ELSE {}
        /\ UNCHANGED fb_cols
        /\ UNCHANGED notBuilders

-----------------------------------------------------------------------------
(* LSTMModel._augment_data                                                 *)

MaxAugN == 4

\* sequence lengths: the shortest ones, and one long enough for a warped
\* sequence to come out longer than the original
SeqLens == {1, 2, 7 * 3}

\* int(seq_len * warp_factor) for warp_factor drawn from [0.95, 1.05)
NewLens(L) == ((95 * L) \div 100) .. (((105 * L + 99) \div 100) - 1)

\* np.linspace(0, seq_len - 1, new_len).astype(int)
Linspace(L, n) ==
    IF n = 1 THEN <<0>>
    ELSE [k \in 1..n |-> ((k - 1) * (L - 1)) \div (n - 1)]

\* X[i][indices], padded with its last value or truncated to seq_len
Resample(L, n) ==
    LET picked == Linspace(L, n)
    IN  IF n < L THEN picked \o [k \in 1..(L - n) |-> picked[n]]
        ELSE IF n > L THEN SubSeq(picked, 1, L)
        ELSE picked

\* the samples of the warping loop for the chosen new lengths: a sample whose
\* new length is 0 is skipped
RECURSIVE WarpedSamples(_, _, _)
WarpedSamples(L, lens, i) ==
    IF i > Len(lens) THEN <<>>
    ELSE IF lens[i] > 0
    THEN <<[src |-> i, kind |-> "warped", len |-> Len(Resample(L, lens[i])), y |-> i]>>
             \o WarpedSamples(L, lens, i + 1)
    ELSE WarpedSamples(L, lens, i + 1)

Prefix(s, n) == SubSeq(s, 1, Min(n, Len(s)))

\* np.concatenate([X_aug, X_noise[:N//2], X_warped[:N//4]]) with the targets
\* alongside; the warped part is left out when the loop produced nothing
Combined(N, L, warped) ==
    LET orig  == [i \in 1..N |-> [src |-> i, kind |-> "original", len |-> L, y |-> i]]
        noisy == [i \in 1..(N \div 2) |-> [src |-> i, kind |-> "noisy", len |-> L, y |-> i]]
    IN  IF warped # <<>> THEN orig \o noisy \o Prefix(warped, N \div 4)
        ELSE orig \o noisy

\* np.random.permutation(n)
RECURSIVE PermutationsOf(_)
PermutationsOf(S) ==
    IF S = {} THEN {<<>>}
    ELSE UNION {{<<x>> \o p : p \in PermutationsOf(S \ {x})} : x \in S}

\* X_combined[indices], y_combined[indices]
Shuffled(combined, indices) == [k \in 1..Len(combined) |-> combined[indices[k]]]

IdleAugment ==
    /\ ag_N = 0
    /\ ag_L = 1
    /\ ag_op = "none"
    /\ ag_warped = 0
    /\ ag_out = <<>>

InitAugment ==
    /\ ag_N \in 0..MaxAugN
    /\ ag_L \in SeqLens
    /\ ag_op = "none"
    /\ ag_warped = 0
    /\ ag_out = <<>>

\* what the warping loop and the concatenation can produce, over the warp
\* factors drawn for the samples
AugmentOutcomes(N, L) ==
    {LET warped == WarpedSamples(L, lens, 1)
     IN  [warped |-> Len(warped), combined |-> Combined(N, L, warped)]
        : lens \in [1..N -> NewLens(L)]}

AugmentData ==
    /\ ag_op = "none"
    /\ \E o \in AugmentOutcomes(ag_N, ag_L) :
          /\ ag_warped' = o.warped
          /\ \E indices \in PermutationsOf(1..Len(o.combined)) :
                ag_out' = Shuffled(o.combined, indices)
    /\ ag_op' = "augment"
    /\ UNCHANGED <<ag_N, ag_L>>
    /\ UNCHANGED notAugment

-----------------------------------------------------------------------------
(* The training stages of LSTMModel.fit                                    *)

MaxEpochs == 8
MaxBatch == 4

WarmupCap == 20

\* callbacks[0], callbacks[1], callbacks[2], and the checkpoint appended when
\* the object has a model_path attribute
Callbacks(has_model_path) ==
    {"early_stopping", "reduce_lr", "lr_scheduler"}
        \cup (IF has_model_path THEN {"checkpoint"} ELSE {})

WarmupCallbacksAll(callbacks) == callbacks

\* callbacks=[callbacks[1]]
WarmupCallbacks(callbacks) == callbacks \cap {"reduce_lr"}

\* warmup_epochs = min(20, epochs // 4)
WarmupEpochs(epochs) == Min(WarmupCap, epochs \div 4)

\* remaining_epochs = epochs - warmup_epochs
RemainingEpochs(epochs) == epochs - WarmupEpochs(epochs)

NoStage == [batch |-> 0, callbacks |-> {}, all |-> {}, epoch |-> 0, final |-> 0,
            stopped |-> FALSE]

\* what the callbacks of a Keras fit call can do at one epoch: the scheduler
\* acts at every epoch, the others when their monitored value says so
EpochActs(callbacks) ==
    {a \in SUBSET callbacks : "lr_scheduler" \in callbacks => "lr_scheduler" \in a}

Tagged(stage, acts) == {<<stage, c>> : c \in acts}

IdleStages ==
    /\ ft_pc = "idle"
    /\ ft_epochs = 0
    /\ ft_batch = 0
    /\ ft_stage = NoStage
    /\ ft_trained = [warmup |-> 0, main |-> 0]
    /\ ft_events = {}
    /\ ft_is_fitted = FALSE
    /\ ft_history = [keys |-> FALSE, len |-> 0]

\* fit(X_train, y_train, X_val, y_val, epochs, batch_size) up to the first
\* self.model.fit call; a batch size of 0 is refused by Keras
FitBegin ==
    /\ ft_pc \in {"idle", "done", "raised"}
    /\ \E epochs \in 1..MaxEpochs, batch_size \in 1..MaxBatch, has_model_path \in BOOLEAN :
          /\ ft_epochs' = epochs
          /\ ft_batch' = batch_size
          /\ IF batch_size \div 2 = 0
             THEN ft_pc' = "raised" /\ ft_stage' = NoStage
             ELSE /\ ft_pc' = "warmup"
                  /\ ft_stage' = [batch |-> batch_size \div 2,
                                  callbacks |-> WarmupCallbacks(Callbacks(has_model_path)),
                                  all |-> Callbacks(has_model_path),
                                  epoch |-> 0,
                                  final |-> WarmupEpochs(epochs),
                                  stopped |-> FALSE]
    /\ ft_trained' = [warmup |-> 0, main |-> 0]
    /\ ft_events' = {}
    /\ UNCHANGED <<ft_is_fitted, ft_history>>
    /\ UNCHANGED notStages

\* one epoch of the warm-up self.model.fit call
WarmupEpoch ==
    /\ ft_pc = "warmup"
    /\ ft_stage.epoch < ft_stage.final /\ ~ft_stage.stopped
    /\ \E acts \in EpochActs(ft_stage.callbacks) :
          /\ ft_events' = ft_events \cup Tagged("warmup", acts)
          /\ ft_stage' = [ft_stage EXCEPT !.epoch = @ + 1,
                                          !.stopped = "early_stopping" \in acts]
    /\ ft_trained' = [ft_trained EXCEPT !.warmup = @ + 1]
    /\ UNCHANGED <<ft_pc, ft_epochs, ft_batch, ft_is_fitted, ft_history>>
    /\ UNCHANGED notStages

\* the warm-up call returns and the main self.model.fit call is entered with
\* epochs=remaining_epochs, initial_epoch=warmup_epochs
WarmupReturn ==
    /\ ft_pc = "warmup"
    /\ ft_stage.epoch >= ft_stage.final \/ ft_stage.stopped
    /\ ft_pc' = "main"
    /\ ft_stage' = [batch |-> ft_batch,
                    callbacks |-> ft_stage.all,
                    all |-> ft_stage.all,
                    epoch |-> WarmupEpochs(ft_epochs),
                    final |-> RemainingEpochs(ft_epochs),
                    stopped |-> FALSE]
    /\ UNCHANGED <<ft_epochs, ft_batch, ft_trained, ft_events, ft_is_fitted, ft_history>>
    /\ UNCHANGED notStages

\* one epoch of the main call: Keras trains epochs initial_epoch .. epochs - 1
MainEpoch ==
    /\ ft_pc = "main"
    /\ ft_stage.epoch < ft_stage.final /\ ~ft_stage.stopped
    /\ \E acts \in EpochActs(ft_stage.callbacks) :
          /\ ft_events' = ft_events \cup Tagged("main", acts)
          /\ ft_stage' = [ft_stage EXCEPT !.epoch = @ + 1,
                                          !.stopped = "early_stopping" \in acts]
    /\ ft_trained' = [ft_trained EXCEPT !.main = @ + 1]
    /\ UNCHANGED <<ft_pc, ft_epochs, ft_batch, ft_is_fitted, ft_history>>
    /\ UNCHANGED notStages

\* the main call returns: the histories are joined over the keys of the
\* warm-up history, self.history and self.is_fitted are assigned
MainReturn ==
    /\ ft_pc = "main"
    /\ ft_stage.epoch >= ft_stage.final \/ ft_stage.stopped
    /\ ft_pc' = "done"
    /\ ft_history' = IF ft_trained.warmup = 0 THEN [keys |-> FALSE, len |-> 0]
                     ELSE [keys |-> TRUE, len |-> ft_trained.warmup + ft_trained.main]
    /\ ft_is_fitted' = TRUE
    /\ UNCHANGED <<ft_epochs, ft_batch, ft_stage, ft_trained, ft_events>>
    /\ UNCHANGED notStages

-----------------------------------------------------------------------------
(* Callers of ModelService.predict                                         *)

MaxCallers == 2

Callers == 1..MaxCallers

NoArgs == [hours |-> 0, unc |-> FALSE]

ServiceAfterPredictLazy(svc) ==
    IF svc.feature_engineer = "None" THEN [svc EXCEPT !.feature_engineer = "new"] ELSE svc

\* what a predict call leaves in self.models, self.scalers,
\* self.feature_engineer and self.model_metadata: it assigns none of them
ServiceAfterPredict(svc) == svc

IdleCallers ==
    /\ cl_pc = [c \in Callers |-> "idle"]
    /\ cl_args = [c \in Callers |-> NoArgs]
    /\ cl_result = [c \in Callers |-> NoResult]

\* a caller, idle or back from an earlier call, enters
\* predict(latitude, longitude, hours, include_uncertainty)
CallerEnter ==
    /\ "ModelService" \in sv_built
    /\ \E c \in Callers, hours \in 1..MaxHours, unc \in BOOLEAN :
          /\ cl_pc[c] \in {"idle", "returned"}
          /\ cl_pc' = [cl_pc EXCEPT ![c] = "dispatched"]
          /\ cl_args' = [cl_args EXCEPT ![c] = [hours |-> hours, unc |-> unc]]
          /\ cl_result' = [cl_result EXCEPT ![c] = NoResult]
    /\ UNCHANGED svVars
    /\ UNCHANGED notCallers

\* the body of predict for one caller, reading the service's fields as they
\* are now
CallerPredict ==
    /\ \E c \in Callers, net \in NetOutcomes :
          /\ cl_pc[c] = "dispatched"
          /\ cl_pc' = [cl_pc EXCEPT ![c] = "returned"]
          /\ cl_result' = [cl_result EXCEPT ![c] =
                ModelServicePredictResult(model_service, cl_args[c].hours, cl_args[c].unc, net)]
    /\ model_service' = ServiceAfterPredict(model_service)
    /\ UNCHANGED <<sv_disk, sv_built, ms_log, compatible_service, sv_op, sv_result, sv_status>>
    /\ cl_args' = cl_args
    /\ UNCHANGED notCallers

-----------------------------------------------------------------------------
(* scripts/train_basic_enhanced.py                                         *)

MaxBasicN == 24
MaxBasicL == 3

\* create_simple_data(2000)
NSamples == 2000
\* create_sequences(X_data, y_data, sequence_length=24, forecast_horizon=1)
BasicSequenceLength == 24
BasicForecastHorizon == 1

\* the series lengths and window lengths looked at: those of the script, and
\* short ones
SampleCounts == {NSamples} \cup 1..MaxBasicN
BasicLengths == {BasicSequenceLength} \cup 1..MaxBasicL

\* create_sequences(X, y, sequence_length, forecast_horizon): sample i holds
\* X[i:i + sequence_length] and y[i + sequence_length:i + sequence_length +
\* forecast_horizon]; rows are numbered from 0, samples from 1
BasicSequences(n, L, H) ==
    [k \in 1..Max(0, n - L - H + 1) |->
        [x |-> (k - 1)..(k - 1 + L - 1), y |-> (k - 1 + L)..(k - 1 + L + H - 1)]]

\* train_size = int(0.7 * len(X_seq)), val_size = int(0.15 * len(X_seq));
\* for the lengths looked at the float product truncates to this quotient
TrainSize(len) == (7 * len) \div 10
ValSize(len) == (15 * len) \div 100

\* X_seq[:train_size], X_seq[train_size:train_size + val_size],
\* X_seq[train_size + val_size:], and the same slices of y_seq
BasicSplit(seqs) ==
    [train |-> SubSeq(seqs, 1, TrainSize(Len(seqs))),
     val |-> SubSeq(seqs, TrainSize(Len(seqs)) + 1, TrainSize(Len(seqs)) + ValSize(Len(seqs))),
     test |-> SubSeq(seqs, TrainSize(Len(seqs)) + ValSize(Len(seqs)) + 1, Len(seqs))]

NoSplit == [train |-> <<>>, val |-> <<>>, test |-> <<>>]

\* the rows of the raw series a sample set reads, as input or as target
RowsUsed(samples) == UNION {samples[k].x \cup samples[k].y : k \in 1..Len(samples)}

IdleBasic ==
    /\ be_n = 0
    /\ be_L = 0
    /\ be_op = "none"
    /\ be_seq = <<>>
    /\ be_split = NoSplit

InitBasic ==
    /\ be_n \in SampleCounts
    /\ be_L \in BasicLengths
    /\ be_op = "none"
    /\ be_seq = <<>>
    /\ be_split = NoSplit

\* train_basic_enhanced_model(), up to the split
TrainBasicEnhancedModel ==
    /\ be_op = "none"
    /\ be_op' = "train_basic_enhanced_model"
    /\ be_seq' = BasicSequences(be_n, be_L, BasicForecastHorizon)
    /\ be_split' = BasicSplit(be_seq')
    /\ UNCHANGED <<be_n, be_L>>
    /\ UNCHANGED notBasic

-----------------------------------------------------------------------------
(* FastModelService.predict and _get_location_factors                      *)
(* Coordinates are in 1/10000 degree, factors in tenths; an NO2 value is   *)
(* in 1/1000 and an O3 value in 1/2000 of a microgram per cubic metre.     *)

\* locations, in the order the dictionary lists them
LocationOrder == <<"central_delhi", "connaught_place", "gurgaon", "noida", "dwarka">>

LocationBounds ==
    [central_delhi |-> <<286000, 287000, 771500, 772500>>,
     connaught_place |-> <<286200, 286400, 772000, 772200>>,
     gurgaon |-> <<284000, 285000, 770000, 771000>>,
     noida |-> <<285000, 286000, 773000, 774000>>,
     dwarka |-> <<285500, 286500, 770000, 771000>>]

LocationFactors ==
    [central_delhi |-> [pollution_factor |-> 13, traffic_factor |-> 14, o3_factor |-> 9,
                        photochemical_factor |-> 8, base_offset |-> 10, o3_offset |-> -5],
     connaught_place |-> [pollution_factor |-> 15, traffic_factor |-> 16, o3_factor |-> 8,
                          photochemical_factor |-> 7, base_offset |-> 15, o3_offset |-> -8],
     gurgaon |-> [pollution_factor |-> 12, traffic_factor |-> 13, o3_factor |-> 11,
                  photochemical_factor |-> 10, base_offset |-> 8, o3_offset |-> 2],
     noida |-> [pollution_factor |-> 11, traffic_factor |-> 12, o3_factor |-> 12,
                photochemical_factor |-> 11, base_offset |-> 5, o3_offset |-> 5],
     dwarka |-> [pollution_factor |-> 9, traffic_factor |-> 10, o3_factor |-> 13,
                 photochemical_factor |-> 12, base_offset |-> 0, o3_offset |-> 8]]

DefaultFactors ==
    [pollution_factor |-> 10, traffic_factor |-> 10, o3_factor |-> 10,
     photochemical_factor |-> 10, base_offset |-> 0, o3_offset |-> 0]

NoFactors == [name |-> "none", factors |-> DefaultFactors]

InBounds(name, lat, lon) ==
    /\ LocationBounds[name][1] <= lat /\ lat <= LocationBounds[name][2]
    /\ LocationBounds[name][3] <= lon /\ lon <= LocationBounds[name][4]

\* the loop over locations.items(): the first entry whose bounds hold the
\* coordinates is returned
RECURSIVE FirstMatch(_, _, _)
FirstMatch(i, lat, lon) ==
    IF i > Len(LocationOrder) THEN [name |-> "default", factors |-> DefaultFactors]
    ELSE IF InBounds(LocationOrder[i], lat, lon)
    THEN [name |-> LocationOrder[i], factors |-> LocationFactors[LocationOrder[i]]]
    ELSE FirstMatch(i + 1, lat, lon)

GetLocationFactors(lat, lon) == FirstMatch(1, lat, lon)

\* the locations of test_different_locations
TestLocations ==
    [central_delhi |-> <<286139, 772090>>,
     connaught_place |-> <<286315, 772167>>,
     gurgaon |-> <<284595, 770266>>,
     noida |-> <<285355, 773910>>,
     dwarka |-> <<285921, 770460>>]

\* fast_model_service.predict(lat, lon, 6)
TestHours == 6

Clamp(lo, hi, v) == Max(lo, Min(hi, v))

\* time_factor, in tenths
TimeFactor(time_hour) ==
    IF (7 <= time_hour /\ time_hour <= 9) \/ (18 <= time_hour /\ time_hour <= 20) THEN 14
    ELSE IF 10 <= time_hour /\ time_hour <= 17 THEN 11
    ELSE 7

\* diurnal_factor, in hundredths
DiurnalFactor(time_hour, f) ==
    IF 12 <= time_hour /\ time_hour <= 16 THEN 15 * f.photochemical_factor
    ELSE IF 6 <= time_hour /\ time_hour <= 11 THEN 120
    ELSE 60

\* no2_values: max(15, min(120, no2_base * rush_intensity + i * 0.3 + base_offset))
NO2Values(hour, hours, f) ==
    [k \in 1..hours |->
        Clamp(15000, 120000,
              (50 + (hour - 12) * 2) * f.pollution_factor
                  * f.traffic_factor * TimeFactor((hour + k - 1) % 24)
                  + (k - 1) * 300 + f.base_offset * 1000)]

\* o3_values: max(10, min(90, o3_base * diurnal_factor + i * 0.2 + o3_offset))
O3Values(hour, hours, f) ==
    [k \in 1..hours |->
        Clamp(20000, 180000,
              (80 + (14 - hour) * 3) * f.o3_factor * DiurnalFactor((hour + k - 1) % 24, f)
                  + (k - 1) * 400 + f.o3_offset * 2000)]

\* predict(latitude, longitude, hours)['predictions'] at the given hour of day
FastPredictions(lat, lon, hour, hours) ==
    [NO2 |-> NO2Values(hour, hours, GetLocationFactors(lat, lon).factors),
     O3 |-> O3Values(hour, hours, GetLocationFactors(lat, lon).factors)]

NoPredictions == [NO2 |-> <<>>, O3 |-> <<>>]

\* the coordinates looked at: the test locations and the corners of the areas
Coordinates ==
    {TestLocations[a] : a \in DOMAIN TestLocations}
        \cup ({LocationBounds[a][1] : a \in DOMAIN LocationBounds}
                 \cup {LocationBounds[a][2] : a \in DOMAIN LocationBounds})
             \X ({LocationBounds[a][3] : a \in DOMAIN LocationBounds}
                    \cup {LocationBounds[a][4] : a \in DOMAIN LocationBounds})

IdleFast ==
    /\ lf_lat = 0
    /\ lf_lon = 0
    /\ lf_hour = 0
    /\ lf_op = "none"
    /\ lf_factors = NoFactors
    /\ lf_result = NoPredictions

InitFast ==
    /\ \E c \in Coordinates : lf_lat = c[1] /\ lf_lon = c[2]
    /\ lf_hour \in 0..23
    /\ lf_op = "none"
    /\ lf_factors = NoFactors
    /\ lf_result = NoPredictions

\* FastModelService.predict(latitude, longitude, 6)
FastPredict ==
    /\ lf_op = "none"
    /\ lf_op' = "predict"
    /\ lf_factors' = GetLocationFactors(lf_lat, lf_lon)
    /\ lf_result' = FastPredictions(lf_lat, lf_lon, lf_hour, TestHours)
    /\ UNCHANGED <<lf_lat, lf_lon, lf_hour>>
    /\ UNCHANGED notFast

-----
(* Specifications                                                          *)

InitRepeatSpec ==
    /\ InitDQ /\ IdleSeq /\ InitModel /\ sv_disk = NoDisk /\ IdleSvc /\ IdleEval
    /\ IdleOutlier /\ IdleFE /\ IdleTrainer /\ IdleBuilders /\ IdleAugment /\ IdleStages /\ IdleCallers /\ IdleBasic /\ IdleFast

NextRepeat == RepeatFit \/ RepeatTransform

SpecRepeat == InitRepeatSpec /\ [][NextRepeat]_vars

InitDQSpec == InitDQ /\ IdleSeq /\ InitModel /\ sv_disk = NoDisk /\ IdleSvc /\ IdleEval /\ IdleOutlier /\ IdleFE /\ IdleTrainer /\ IdleBuilders /\ IdleAugment /\ IdleStages /\ IdleCallers /\ IdleBasic /\ IdleFast

NextDQ == Fit \/ Transform

SpecDQ == InitDQSpec /\ [][NextDQ]_vars

NextSeq == SplitTimeSeries \/ CreateSequences \/ PrepareData

InitSeqSpec == InitSeq /\ InitDQ /\ InitModel /\ sv_disk = NoDisk /\ IdleSvc /\ IdleEval /\ IdleOutlier /\ IdleFE /\ IdleTrainer /\ IdleBuilders /\ IdleAugment /\ IdleStages /\ IdleCallers /\ IdleBasic /\ IdleFast

SpecSeq == InitSeqSpec /\ [][NextSeq]_vars

InitModelSpec == InitModel /\ InitDQ /\ IdleSeq /\ sv_disk = NoDisk /\ IdleSvc /\ IdleEval /\ IdleOutlier /\ IdleFE /\ IdleTrainer /\ IdleBuilders /\ IdleAugment /\ IdleStages /\ IdleCallers /\ IdleBasic /\ IdleFast

NextModel ==
    \/ BuildModel
    \/ FitModel
    \/ Predict
    \/ PredictWithUncertainty
    \/ SaveModel
    \/ LoadModel
    \/ RemoveNetworkFile

SpecModel == InitModelSpec /\ [][NextModel]_vars

InitSvcSpec == InitSvc /\ InitDQ /\ IdleSeq /\ InitModel /\ IdleEval /\ IdleOutlier /\ IdleFE /\ IdleTrainer /\ IdleBuilders /\ IdleAugment /\ IdleStages /\ IdleCallers /\ IdleBasic /\ IdleFast

NextSvc ==
    \/ ModelServiceInit
    \/ ModelServicePredict
    \/ CompatibleServiceInit
    \/ CompatibleServicePredict
    \/ FastServiceInit
    \/ FastServicePredict
    \/ GetModelStatus

SpecSvc == InitSvcSpec /\ [][NextSvc]_vars

InitEvalSpec == InitEval /\ InitDQ /\ IdleSeq /\ InitModel /\ sv_disk = NoDisk /\ IdleSvc /\ IdleOutlier /\ IdleFE /\ IdleTrainer /\ IdleBuilders /\ IdleAugment /\ IdleStages /\ IdleCallers /\ IdleBasic /\ IdleFast

NextEval == CalculateMetrics

SpecEval == InitEvalSpec /\ [][NextEval]_vars

InitOutlierSpec ==
    InitOutlier /\ InitDQ /\ IdleSeq /\ InitModel /\ sv_disk = NoDisk /\ IdleSvc /\ IdleEval
        /\ IdleFE /\ IdleTrainer /\ IdleBuilders /\ IdleAugment /\ IdleStages /\ IdleCallers /\ IdleBasic /\ IdleFast

NextOutlier == DetectAndHandleOutliers

SpecOutlier == InitOutlierSpec /\ [][NextOutlier]_vars

InitFESpec ==
    InitFE /\ InitDQ /\ IdleSeq /\ InitModel /\ sv_disk = NoDisk /\ IdleSvc /\ IdleEval
        /\ IdleOutlier /\ IdleTrainer /\ IdleBuilders /\ IdleAugment /\ IdleStages /\ IdleCallers /\ IdleBasic /\ IdleFast

NextFE == FitTransform \/ CreateLagDifferenceFeatures \/ FeatureEngineerTransform

SpecFE == InitFESpec /\ [][NextFE]_vars

InitTrainerSpec ==
    InitTrainer /\ InitDQ /\ IdleSeq /\ InitModel /\ sv_disk = NoDisk /\ IdleSvc /\ IdleEval
        /\ IdleOutlier /\ IdleFE /\ IdleBuilders /\ IdleAugment /\ IdleStages /\ IdleCallers /\ IdleBasic /\ IdleFast

NextTrainer == TrainerInit \/ BackendChanges \/ TrainModel \/ HyperparameterSearch

SpecTrainer == InitTrainerSpec /\ [][NextTrainer]_vars

NextMulti == TrainerInit \/ BackendChanges \/ TrainMultipleModels \/ EvaluateModels

SpecMulti == InitTrainerSpec /\ [][NextMulti]_vars

InitBuildersSpec ==
    InitBuilders /\ InitDQ /\ IdleSeq /\ InitModel /\ sv_disk = NoDisk /\ IdleSvc /\ IdleEval
        /\ IdleOutlier /\ IdleFE /\ IdleTrainer /\ IdleAugment /\ IdleStages /\ IdleCallers /\ IdleBasic /\ IdleFast

NextBuilders ==
    CreateMeteorologicalFeatures \/ CreateSatelliteFeatures \/ CreatePollutionFeatures

SpecBuilders == InitBuildersSpec /\ [][NextBuilders]_vars

InitAugmentSpec ==
    InitAugment /\ InitDQ /\ IdleSeq /\ InitModel /\ sv_disk = NoDisk /\ IdleSvc /\ IdleEval
        /\ IdleOutlier /\ IdleFE /\ IdleTrainer /\ IdleBuilders /\ IdleStages /\ IdleCallers /\ IdleBasic /\ IdleFast

NextAugment == AugmentData

SpecAugment == InitAugmentSpec /\ [][NextAugment]_vars

InitStagesSpec ==
    IdleStages /\ InitDQ /\ IdleSeq /\ InitModel /\ sv_disk = NoDisk /\ IdleSvc /\ IdleEval
        /\ IdleOutlier /\ IdleFE /\ IdleTrainer /\ IdleBuilders /\ IdleAugment /\ IdleCallers /\ IdleBasic /\ IdleFast

NextStages == FitBegin \/ WarmupEpoch \/ WarmupReturn \/ MainEpoch \/ MainReturn

SpecStages == InitStagesSpec /\ [][NextStages]_vars

InitCallersSpec ==
    InitSvc /\ IdleCallers /\ IdleBasic /\ IdleFast /\ InitDQ /\ IdleSeq /\ InitModel /\ IdleEval
        /\ IdleOutlier /\ IdleFE /\ IdleTrainer /\ IdleBuilders /\ IdleAugment /\ IdleStages

NextCallers == ModelServiceInit \/ CallerEnter \/ CallerPredict

SpecCallers == InitCallersSpec /\ [][NextCallers]_vars

InitBasicSpec ==
    InitBasic /\ InitDQ /\ IdleSeq /\ InitModel /\ sv_disk = NoDisk /\ IdleSvc /\ IdleEval
        /\ IdleOutlier /\ IdleFE /\ IdleTrainer /\ IdleBuilders /\ IdleAugment /\ IdleStages
        /\ IdleCallers /\ IdleFast

NextBasic == TrainBasicEnhancedModel

SpecBasic == InitBasicSpec /\ [][NextBasic]_vars

InitFastSpec ==
    InitFast /\ InitDQ /\ IdleSeq /\ InitModel /\ sv_disk = NoDisk /\ IdleSvc /\ IdleEval
        /\ IdleOutlier /\ IdleFE /\ IdleTrainer /\ IdleBuilders /\ IdleAugment /\ IdleStages
        /\ IdleCallers /\ IdleBasic

NextFast == FastPredict

SpecFast == InitFastSpec /\ [][NextFast]_vars

-----------------------------------------------------------------------------
\* C1: after a fit, every transform_new_data(df) clips each numeric column of
\* df to the bounds stored for that column at fit time, whatever df holds.
C1_TransformClipsToFittedBounds ==
    (dq_fitted /\ dq_op = "transform") =>
        \A c \in (DOMAIN dq_in) \cap (DOMAIN dq_fit_bounds) :
            dq_applied[c] = dq_fit_bounds[c]

\* C2: once a fit has completed, a transform_new_data call leaves
\* outlier_bounds, scalers and transformers exactly as they were.
C2_TransformLeavesFittedState ==
    [][(dq_fitted /\ dq_op' = "transform")
          => UNCHANGED <<outlier_bounds, scalers, transformers>>]_vars

-----------------------------------------------------------------------------
(* Sequence assembler claims                                               *)

SampleRows(s) == SeqToSet(s.x) \cup SeqToSet(s.y)

SamplesOf(k) == {sq_samples[k][i] : i \in 1..Len(sq_samples[k])}

\* C3: every sample returned by prepare_data is built only from rows of its
\* own segment: no training sample uses a validation or test row and no
\* validation sample uses a test row.
C3_SamplesStayInSegment ==
    (sq_op = "prepare_data" /\ sq_result = "returned") =>
        /\ \A k \in {"train", "val", "test"} : \A s \in SamplesOf(k) :
              SampleRows(s) \subseteq SeqToSet(sq_segs[k])
        /\ \A s \in SamplesOf("train") :
              SampleRows(s) \cap (SeqToSet(sq_segs.val) \cup SeqToSet(sq_segs.test)) = {}
        /\ \A s \in SamplesOf("val") :
              SampleRows(s) \cap SeqToSet(sq_segs.test) = {}

C3_Witness ==
    /\ sq_op = "prepare_data" /\ sq_result = "returned"
    /\ Len(sq_samples.train) >= 1
    /\ Len(sq_samples.val) >= 1
    /\ Len(sq_segs.val) >= 2

Before(a, b) == \A i \in SeqToSet(a) : \A j \in SeqToSet(b) : sq_ts[i] < sq_ts[j]

NotAfter(a, b) == \A i \in SeqToSet(a) : \A j \in SeqToSet(b) : sq_ts[i] <= sq_ts[j]

DistinctTimestamps == \A i, j \in 1..Len(sq_ts) : i # j => sq_ts[i] # sq_ts[j]

\* C4 (as claimed): for every frame and every ratio triple summing to 1.0 the
\* timestamps of train are strictly less than those of validation, which are
\* strictly less than those of test.
C4_SplitStrictlyOrdered ==
    (sq_op = "split_time_series" /\ sq_result = "returned") =>
        /\ Before(sq_segs.train, sq_segs.val)
        /\ Before(sq_segs.val, sq_segs.test)

\* C4 (amended): the three segments partition the rows, no timestamp of an
\* earlier segment is greater than one of a later segment, and the order is
\* strict when no two rows of the frame share a timestamp.
C4_SplitOrdered ==
    (sq_op = "split_time_series" /\ sq_result = "returned") =>
        /\ NotAfter(sq_segs.train, sq_segs.val)
        /\ NotAfter(sq_segs.val, sq_segs.test)
        /\ NotAfter(sq_segs.train, sq_segs.test)
        /\ Len(sq_segs.train) + Len(sq_segs.val) + Len(sq_segs.test) = Len(sq_ts)
        /\ SeqToSet(sq_segs.train) \cup SeqToSet(sq_segs.val) \cup SeqToSet(sq_segs.test)
              = 1..Len(sq_ts)
        /\ DistinctTimestamps =>
              /\ Before(sq_segs.train, sq_segs.val)
              /\ Before(sq_segs.val, sq_segs.test)
              /\ Before(sq_segs.train, sq_segs.test)

C4_Witness ==
    /\ sq_op = "split_time_series" /\ sq_result = "returned"
    /\ DistinctTimestamps
    /\ Len(sq_segs.train) >= 1 /\ Len(sq_segs.val) >= 1 /\ Len(sq_segs.test) >= 1
    /\ sq_ts[1] > sq_ts[Len(sq_ts)]

\* C5: on a frame of N >= L + H rows create_sequences returns N - L - H + 1
\* samples, X of shape (N-L-H+1, L, num_features), y of shape
\* (N-L-H+1, H, num_targets); sample i (0-based) has input rows i..i+L-1 and
\* target rows i+L..i+L+H-1 (rows are numbered from 1 here, sample k = i + 1).
C5_SequenceCountAndWindows ==
    (sq_op = "create_sequences" /\ Len(sq_ts) >= sq_L + sq_H) =>
        LET N   == Len(sq_ts)
            num == N - sq_L - sq_H + 1
        IN  /\ sq_result = "returned"
            /\ Len(sq_samples.train) = num
            /\ sq_shape.X = <<num, sq_L, sq_nfeat>>
            /\ sq_shape.y = <<num, sq_H, NumTargets>>
            /\ \A k \in 1..num :
                  /\ sq_samples.train[k].x = [j \in 1..sq_L |-> k + j - 1]
                  /\ sq_samples.train[k].y = [j \in 1..sq_H |-> k + sq_L + j - 1]
            /\ (N = 100 /\ sq_L = 24 /\ sq_H = 1) => num = 76

C5_Witness ==
    /\ sq_op = "create_sequences"
    /\ Len(sq_ts) = 100 /\ sq_L = 24 /\ sq_H = 1
    /\ Len(sq_samples.train) = 76

\* C6: on a frame of fewer than sequence_length + forecast_horizon rows
\* create_sequences raises an error instead of returning arrays.
C6_TooFewRowsRaises ==
    (sq_op = "create_sequences" /\ Len(sq_ts) < sq_L + sq_H) =>
        sq_result \notin {"none", "returned"}

-----------------------------------------------------------------------------
(* Model life cycle claims                                                 *)

-----------------------------------------------------------------------------
(* Prediction service claims                                               *)

\* C8: a load is valid only when the network artifact and the scaler and
\* feature-engineer state saved with it are all present; otherwise loading
\* reports an error and leaves no model registered.
C8_RegisteredOnlyWhenComplete ==
    ("ModelService" \in sv_built /\ "basic_enhanced" \in model_service.models)
        => (sv_disk.network = "valid" /\ sv_disk.scaler = "valid" /\ sv_disk.fe = "valid")

\* values derived from an output of a loaded network
FromNetwork(values) == values \in {"network", "network_and_noise"}

\* whether the service the last call went to holds a loaded network
HoldsNetwork(service) ==
    CASE service = "ModelService" -> "basic_enhanced" \in model_service.models
      [] service = "CompatibleModelService" -> compatible_service.model # "None"
      [] OTHER -> FALSE

\* C9: a predict call that cannot be satisfied from a loaded model fails
\* with an error; no service returns heuristic or random values in its place.
C9_NoModelPredictFails ==
    (sv_op[2] = "predict" /\ sv_result.outcome = "returned")
        => (HoldsNetwork(sv_op[1]) /\ FromNetwork(sv_result.values))

HeuristicLabels == {"intelligent_atmospheric_patterns"}

\* C10: whenever the returned values were not computed from a loaded
\* learned network, model_used and model_info name a heuristic source, and
\* /model-status does not report a trained model as active.
C10_HeuristicIsLabelled ==
    /\ (sv_op[2] = "predict" /\ sv_result.outcome = "returned"
            /\ ~FromNetwork(sv_result.values))
          => (sv_result.model_used \in HeuristicLabels
                /\ sv_result.info_name = "Atmospheric Science Patterns")
    /\ (sv_op[2] = "get_model_status" /\ ~HoldsNetwork(sv_op[1]))
          => sv_status.status = "intelligent_fallback"

\* C11: every predict call with horizon h >= 1 that returns gives NO2 and
\* O3 exactly h values each, and uncertainties exactly when
\* include_uncertainty is true, then of length h per pollutant.
C11_PredictionLengthIsHorizon ==
    (sv_op[2] = "predict" /\ sv_result.outcome = "returned")
        => /\ sv_result.lengths = Lengths(sv_result.hours)
           /\ sv_result.unc_lengths = UncLengths(sv_result.hours, sv_result.uncertainties)

-----------------------------------------------------------------------------
(* Evaluator claims                                                        *)

\* C12: whenever y_pred equals y_true everywhere, the overall accuracy
\* score is exactly 100 (and rmse 0, mae 0, r2 1, accuracy within 10
\* percent 100, as for y_true = y_pred = [50, 52, 48]).
C12_PerfectPredictionScores100 ==
    (ev_op = "calculate_metrics" /\ ev_pred = ev_true)
        => /\ ev_metrics.overall_accuracy_score_x10.kind = "finite"
           /\ ev_metrics.overall_accuracy_score_x10.num
                = 1000 * ev_metrics.overall_accuracy_score_x10.den

-----------------------------------------------------------------------------
(* Outlier capping claims                                                  *)

OdCol == od_in["NO2_satellite"]
OdQ1 == Quantile(OdCol, 1, 4)
OdQ3 == Quantile(OdCol, 3, 4)
\* twice the bounds Q1 - k * IQR and Q3 + k * IQR, k = od_factor / 2
OdLower2 == 2 * OdQ1 - od_factor * (OdQ3 - OdQ1)
OdUpper2 == 2 * OdQ3 + od_factor * (OdQ3 - OdQ1)

\* C13: detect_and_handle_outliers with method 'iqr' and factor k clamps
\* every value to [Q1 - k*IQR, Q3 + k*IQR] of the column as it was before
\* the call: every value ends inside the interval, values inside it are
\* unchanged, values outside move to the nearer bound, rows keep their
\* number and order; [10, 12, 11, 13, 1000] with k = 1.5 changes only 1000,
\* to Q3 + 1.5 * IQR = 16.
C13_IqrClampsToQuartileBounds ==
    od_op = "detect_and_handle_outliers" =>
        LET out == od_out["NO2_satellite"]
        IN  /\ Len(out) = Len(OdCol)
            /\ \A i \in 1..Len(OdCol) :
                  /\ OdLower2 <= 2 * out[i] /\ 2 * out[i] <= OdUpper2
                  /\ (OdLower2 <= 2 * OdCol[i] /\ 2 * OdCol[i] <= OdUpper2) => out[i] = OdCol[i]
                  /\ 2 * OdCol[i] > OdUpper2 => 2 * out[i] = OdUpper2
                  /\ 2 * OdCol[i] < OdLower2 => 2 * out[i] = OdLower2
            /\ (od_in = OutlierScenario /\ od_factor = 3)
                  => out = <<10 * Unit, 12 * Unit, 11 * Unit, 13 * Unit, 16 * Unit>>

C13_Witness ==
    /\ od_op = "detect_and_handle_outliers"
    /\ od_in = OutlierScenario
    /\ od_factor = 3
    /\ od_out["NO2_satellite"][5] = 16 * Unit

-----------------------------------------------------------------------------
(* Feature pipeline claims                                                 *)

\* C14: after fit_transform no numeric cell of the returned frame is NaN,
\* +Inf or -Inf: every such value produced earlier reaches the terminal
\* step and is replaced by its column median.
C14_FitTransformLeavesNoNaNOrInf ==
    fe_op = "fit_transform"
        => /\ fe_result = "returned"
           /\ ~HasKind(fe_frame, "nan")
           /\ ~HasKind(fe_frame, "inf")

\* C15: no ratio, log or percentage-change feature is NaN or Inf where the
\* column defining its denominator holds exact zeros.
C15_ZeroDenominatorStaysFinite ==
    fe_op = "create_lag_difference_features"
        => \A d \in DiffPeriods : \A i \in 1..Len(fe_in) :
              (i > d /\ fe_in[i - d] = 0) => fe_frame[<<"pct_change", d>>][i] = "fin"

-----------------------------------------------------------------------------
(* Reproducibility claims                                                  *)

\* C16: transform_new_data on an enhancer that was never fitted, or on a
\* frame whose columns are not the fitted ones, raises; it never returns a
\* frame that was left unscaled.
C16_UnfittedTransformRaises ==
    dq_op = "transform"
        => /\ ~dq_fitted => dq_result # "returned"
           /\ (dq_fitted /\ ~RobustAccepts(scalers["robust"], dq_in)) => dq_result # "returned"

\* C17: with fitted state, transform_new_data returns the same output for the
\* same input as an earlier call on that fit did, also when calls on other
\* frames happened between the two.
C17_TransformIsDeterministic ==
    \A p \in dq_probe :
        (dq_fitted /\ dq_op = "transform" /\ dq_in = p.in)
            => /\ dq_result = p.result
               /\ dq_result = "returned" => dq_out = p.out

C17_Witness ==
    \E p \in dq_probe :
        /\ dq_fitted /\ dq_op = "transform" /\ dq_in = p.in
        /\ p.between
        /\ dq_result = "returned"
        /\ \E c \in DOMAIN dq_in : \E i \in 1..Len(dq_in[c]) : dq_clipped[c][i] # 0

-----------------------------------------------------------------------------
(* Training claims                                                         *)

\* C18: in hyperparameter_search every one of the n_trials trials is run, and
\* a trial whose objective raises is scored +infinity, however many fail.
C18_FailingTrialDoesNotAbortSearch ==
    tr_op = "search"
        => /\ tr_search.trials_run = tr_search.n_trials
           /\ Len(tr_search.scores) = tr_search.n_trials
           /\ \A i \in 1..tr_search.n_trials :
                 tr_search.fits[i] = "raises" => tr_search.scores[i] = "inf"

\* C19: when nothing but the tracking backend fails, train_model returns with
\* the model fitted, evaluated on the validation set and saved as asked.
C19_TrackingOutageDoesNotAbortTraining ==
    (tr_op = "train" /\ tr_train.fit = "ok")
        => /\ tr_train.outcome = "returned"
           /\ tr_train.fitted /\ tr_train.evaluated
           /\ tr_train.saved = tr_train.save_model

-----------------------------------------------------------------------------
(* Feature builder claims                                                  *)

\* C20: whichever source columns the frame has, each feature builder returns,
\* and every column it added reads only source columns the frame has.
C20_BuildersTolerateMissingColumns ==
    fb_op # "none"
        => /\ fb_result = "returned"
           /\ \A col \in fb_added : Reads(col) \subseteq fb_cols

-----------------------------------------------------------------------------
(* Model life-cycle and training-stage claims                              *)

\* C25: whenever is_fitted is true, the network held is one that fit has
\* trained or load_model has loaded; never none, never a freshly built one.
C25_FittedHoldsTrainedNetwork ==
    m_is_fitted => m_model \in {"trained", "loaded"}

\* C22: _augment_data on N samples returns N + N div 2 + N div 4 samples,
\* among them every original pair; every returned input still has the target
\* of the sample it was derived from, and the original sequence length.
C22_AugmentCountAndPairing ==
    ag_op = "augment"
        => /\ Len(ag_out) = ag_N + (ag_N \div 2) + (ag_N \div 4)
           /\ \A i \in 1..ag_N :
                 \E k \in 1..Len(ag_out) :
                    ag_out[k] = [src |-> i, kind |-> "original", len |-> ag_L, y |-> i]
           /\ \A k \in 1..Len(ag_out) : ag_out[k].y = ag_out[k].src /\ ag_out[k].len = ag_L

\* C21: the main stage starts only after the warm-up stage has run all its
\* epochs; the warm-up runs at batch_size div 2 with only the learning-rate
\* reduction active, the main stage at batch_size; every other callback acts
\* only in the main stage; is_fitted becomes true only when the main stage
\* returns.
C21_StagesInv ==
    /\ ft_pc = "warmup" =>
          /\ ft_stage.batch = ft_batch \div 2
          /\ ft_stage.callbacks = {"reduce_lr"}
          /\ ft_trained.main = 0
    /\ ft_pc = "main" =>
          /\ ft_trained.warmup = WarmupEpochs(ft_epochs)
          /\ ft_stage.batch = ft_batch
          /\ "early_stopping" \in ft_stage.callbacks
    /\ \A e \in ft_events : e[2] # "reduce_lr" => e[1] = "main"

C21_FittedStep ==
    (~ft_is_fitted /\ ft_is_fitted') => (ft_pc = "main" /\ ft_pc' = "done")

C21_WarmupBeforeMain == [] C21_StagesInv /\ [][C21_FittedStep]_vars

C21_Witness ==
    /\ ft_pc = "done" /\ ft_is_fitted
    /\ ft_trained.warmup > 0 /\ ft_trained.main > 0
    /\ <<"warmup", "reduce_lr">> \in ft_events
    /\ <<"main", "early_stopping">> \in ft_events
    /\ <<"main", "checkpoint">> \in ft_events

\* C26: a fit call with epochs = E in which early stopping does not trigger
\* trains min(20, E div 4) warm-up epochs and E minus that many main epochs,
\* E in all, and every metric of the combined history has E entries.
C26_TrainsAllEpochs ==
    (ft_pc = "done" /\ ~ft_stage.stopped)
        => /\ ft_trained.warmup = Min(WarmupCap, ft_epochs \div 4)
           /\ ft_trained.main = ft_epochs - ft_trained.warmup
           /\ ft_trained.warmup + ft_trained.main = ft_epochs
           /\ ft_history.keys => ft_history.len = ft_epochs

-----------------------------------------------------------------------------
(* Percentage error over arrays with zero entries                          *)

\* the sum of |t[i] - p[i]| / |t[i]| over the entries from i on whose truth is
\* not zero, as a fraction
RECURSIVE PercentageErrorSum(_, _, _)
PercentageErrorSum(t, p, i) ==
    IF i > Len(t) THEN Finite(0, 1)
    ELSE LET rest == PercentageErrorSum(t, p, i + 1)
         IN  IF t[i] = 0 THEN rest
             ELSE ReduceFrac(Abs(t[i] - p[i]) * rest.den + rest.num * Abs(t[i]),
                             Abs(t[i]) * rest.den)

NonZeroCount(t) == Len(SelectSeq(t, LAMBDA x : x # 0))

\* C23: when y_true has zero entries the MAPE is still returned, and it is the
\* mean absolute percentage error of the entries whose truth is not zero.
C23_MapeMasksZeroTruth ==
    (ev_op = "calculate_metrics" /\ NonZeroCount(ev_true) > 0)
        => LET sum == PercentageErrorSum(ev_true, ev_pred, 1)
               n   == NonZeroCount(ev_true)
           IN  ev_metrics.mape = Percent(ReduceFrac(sum.num, sum.den * n))

C23_Witness ==
    /\ ev_op = "calculate_metrics"
    /\ \E i \in 1..Len(ev_true) : ev_true[i] = 0 /\ ev_pred[i] # 0
    /\ \E i \in 1..Len(ev_true) : ev_true[i] # 0 /\ ev_pred[i] # ev_true[i]
    /\ ev_metrics.mape.kind = "finite" /\ ev_metrics.mape.num > 0

-----------------------------------------------------------------------------
(* Service state under concurrent predictions                              *)

\* C24: after any number of predict calls, from callers running at the same
\* time, the models, scalers, feature engineer and metadata of the service are
\* what _load_models set at construction.
C24_PredictLeavesLoadedState ==
    "ModelService" \in sv_built => model_service = LoadModels(sv_disk).svc

C24_Witness ==
    /\ \A c \in Callers : cl_pc[c] = "returned"
    /\ \E c \in Callers : cl_result[c].values = "network"
    /\ \E c \in Callers : cl_result[c].values = "heuristic"
    /\ model_service.models = {"basic_enhanced"}

\* C27: transform derives the lag and rolling columns fit_transform derived,
\* with the same lag periods and window sizes, so no feature column of the
\* fitted frame has to be made up for a validation or test frame.
C27_TransformDerivesFittedColumns ==
    (fe_op = "fit_transform" /\ fe_result = "returned" /\ fe_val # <<>>)
        => /\ TransformLags = FitLags
           /\ TransformWindows = FitWindows
           /\ fe_filled = {}
           /\ DOMAIN fe_out \ TargetColumns = fe_feature_names

\* C28: after train_multiple_models returned with k trained configurations,
\* the trainer holds k models, and evaluate_models returns one entry for each
\* of them.
C28_EveryTrainedModelIsKept ==
    tr_multi.outcome = "returned"
        => /\ Cardinality(tr_models) >= Cardinality(tr_multi.results)
           /\ tr_op = "evaluate" => Cardinality(tr_eval.entries) >= Cardinality(tr_multi.results)

\* C29: the train, val and test sample sets of train_basic_enhanced_model read
\* disjoint parts of the raw series: no row a training sample reads is read
\* by a val or test sample, and no row a val sample reads is read by a test
\* sample.
C29_SplitsShareNoRow ==
    be_op = "train_basic_enhanced_model"
        => /\ RowsUsed(be_split.train) \cap RowsUsed(be_split.val) = {}
           /\ RowsUsed(be_split.train) \cap RowsUsed(be_split.test) = {}
           /\ RowsUsed(be_split.val) \cap RowsUsed(be_split.test) = {}

\* C30: coordinates inside the bounds of a named area get that area's
\* factors; so the predictions for the five test locations differ pairwise
\* and no test location has a higher NO2 sum than Connaught Place.
C30_NamedAreaGetsItsFactors ==
    lf_op = "predict"
        => /\ \A a \in DOMAIN LocationBounds :
                 InBounds(a, lf_lat, lf_lon) => lf_factors.factors = LocationFactors[a]
           /\ \A a, b \in DOMAIN TestLocations :
                 a # b => FastPredictions(TestLocations[a][1], TestLocations[a][2],
                                          lf_hour, TestHours)
                            # FastPredictions(TestLocations[b][1], TestLocations[b][2],
                                              lf_hour, TestHours)
           /\ \A a \in DOMAIN TestLocations :
                 SumSeq(FastPredictions(TestLocations[a][1], TestLocations[a][2],
                                        lf_hour, TestHours).NO2)
                   <= SumSeq(FastPredictions(TestLocations.connaught_place[1],
                                             TestLocations.connaught_place[2],
                                             lf_hour, TestHours).NO2)

====
